---- MODULE Spec2Model ----
(***************************************************************************)
(* Runner-side pipeline engine of VideoConverter: the multi-stage task     *)
(* queue (core/TaskQueue.ts), the per-stage task processor                 *)
(* (core/TaskState.ts), the task states (core/TaskStates.ts) and the       *)
(* runner service that drives them (services/runner.ts).                   *)
(*                                                                         *)
(* The specifications below share the definitions:                         *)
(*   QSpec         the TaskQueue class alone, called in any order;         *)
(*   Spec          the RunnerService: poll loop, dispatch loop, three      *)
(*                 stage processors and their event handlers;              *)
(*   ScenarioSpec  the RunnerService fed with tasks 1, 2, 3, ... in that   *)
(*                 order, each bound once, every stage succeeding;         *)
(*   ServerSpec    the control plane's POST /runner/<taskId>/start         *)
(*                 handler, called by several runners;                     *)
(*   StartupSpec   RunnerService.start / stop, the system probe and the    *)
(*                 entry point's signal handlers;                          *)
(*   DownloadSpec  the chunked DownloadManager and the single-stream       *)
(*                 Downloader;                                             *)
(*   PlanSpec      DownloadManager.initChunks alone, on sources of any     *)
(*                 size;                                                   *)
(*   TranscodeSpec the bitrate solvers of Converter.convert and of         *)
(*                 TranscodeManager;                                       *)
(*   ProcessSpec   TaskProcessor.process alone, with listeners that may    *)
(*                 throw;                                                  *)
(*   UploadSpec    Uploader.upload against the object store;               *)
(*   RetrySpec     the HTTP client's retry wrapper.                        *)
(***************************************************************************)
EXTENDS Integers, Sequences, FiniteSets, TLC

(***************************************************************************)
(* Bounds of the model.                                                    *)
(***************************************************************************)
\* number of task ids the control plane offers in Spec and ServerSpec, and
\* a client of TaskQueue uses in QSpec
NumTasks == 2
\* number of tasks fed to the runner in ScenarioSpec
ScenarioTasks == 3
\* number of runners that call the control plane in ServerSpec
NumRunners == 2
\* priorities a task may carry are 0..MaxPriority
MaxPriority == 1
\* PlanSpec: the sources are those of 1..MaxPlanBytes bytes and those within
\* a byte of k chunk sizes, k = 1..MaxPlanParts
MaxPlanBytes == 70
MaxPlanParts == 33
\* TranscodeSpec: the inputs last 0..MaxHours whole hours, or a second around
\* one of the solvers' thresholds
MaxHours == 120
\* ProcessSpec: TaskProcessor.process is called at most MaxCalls times
MaxCalls == 2
\* largest per-stage cap a client of TaskQueue configures in QSpec
MaxCap == 1
\* how many start calls of this runner the control plane answers with success
MaxFetch == 3
\* LiveSpec: how many tasks are added in all (finitely many)
MaxAdds == 2
\* largest source a download is asked for, in bytes
MaxTotal == 2
\* how many times a download is started again on the same destination
MaxRestarts == 1
\* the files handed to the uploader have up to MaxParts * PART_SIZE + 1 bytes
MaxParts == 3

TaskIds == 1..(IF ScenarioTasks > NumTasks THEN ScenarioTasks ELSE NumTasks)
OfferedIds == 1..NumTasks
Runners == 1..NumRunners
Priorities == 0..MaxPriority
Stages == {"download", "convert", "upload"}

VARIABLES
    taskQueue,   \* the TaskQueue object: waiting lists, in-flight sets, caps, last event
    tasks,       \* the Task object currently alive for each id
    taskStates,  \* RunnerService.taskStates: the carry store
    disk,        \* scratch files of each task under TMP_DIR
    http,        \* state calls the runner has sent to the control plane
    procEmitted, \* the last 'complete' or 'error' event a stage processor has emitted
    terminal,    \* ids for which the queue has emitted 'completed' or 'failed'
    loop,        \* position of the dispatch loop and of the task each stage drives
    poll,        \* position of checkAndFetchNewTask
    fetched,     \* how many tasks this runner has bound
    arrival,     \* per stage, the waiting ids in the order they entered the waiting list
    server,      \* the control plane: task table and the start handlers in progress
    boot,        \* RunnerService.start / stop and the operations the started runner drives
    dl,          \* a download: source size, part files, chunk bookkeeping, outcome
    up,          \* an upload: local file, objects in the store, outcome
    call,        \* one call through the HTTP client's retry wrapper
    enc,         \* one transcode: the probe of its input and the bitrate solved for it
    run          \* one call of TaskProcessor.process: its position and the events it emitted

vars == <<taskQueue, tasks, taskStates, disk, http, procEmitted, terminal, loop, poll, fetched,
          arrival, server, boot, dl, up, call, enc, run>>

(***************************************************************************)
(* Task objects (types/task.ts).                                           *)
(***************************************************************************)
NoError == [code |-> "none", message |-> ""]

\* statusLog is the sequence of distinct values task.status has taken
NewTask(hasPriority, priority) ==
    [status |-> "WAITING", statusLog |-> <<"WAITING">>, error |-> NoError,
     downloadedFilePath |-> FALSE, convertedFilePath |-> FALSE, uploadInfo |-> FALSE,
     hasPriority |-> hasPriority, priority |-> priority]

\* the slot of an id no task object is alive for
NoTask == [NewTask(FALSE, 0) EXCEPT !.status = "none", !.statusLog = <<>>]

\* task.status = s
SetStatus(t, s) ==
    IF t.status = s THEN t
    ELSE [t EXCEPT !.status = s, !.statusLog = Append(@, s)]

(***************************************************************************)
(* TaskQueue (core/TaskQueue.ts).  Waiting lists hold task ids; the object *)
(* an id refers to lives in tasks.  emitted is the last event other than   *)
(* 'updated' the queue has emitted.                                        *)
(***************************************************************************)
NoEvent == [type |-> "none", id |-> 0, stage |-> "none"]

NewTaskQueue(maxDownloadConcurrent, maxConvertConcurrent, maxUploadConcurrent) ==
    [downloadQueue |-> <<>>, convertQueue |-> <<>>, uploadQueue |-> <<>>,
     processingDownload |-> {}, processingConvert |-> {}, processingUpload |-> {},
     maxDownloadConcurrent |-> maxDownloadConcurrent,
     maxConvertConcurrent |-> maxConvertConcurrent,
     maxUploadConcurrent |-> maxUploadConcurrent,
     emitted |-> NoEvent]

Range(s) == {s[i] : i \in 1..Len(s)}

\* a membership test that looks at the waiting lists only
isTaskInAnyQueue_waitingOnly(q, taskId) ==
    \/ taskId \in Range(q.downloadQueue)
    \/ taskId \in Range(q.convertQueue)
    \/ taskId \in Range(q.uploadQueue)

isTaskInAnyQueue(q, taskId) ==
    \/ taskId \in Range(q.downloadQueue)
    \/ taskId \in Range(q.convertQueue)
    \/ taskId \in Range(q.uploadQueue)
    \/ taskId \in q.processingDownload
    \/ taskId \in q.processingConvert
    \/ taskId \in q.processingUpload

\* add without the isTaskInAnyQueue check
add_unchecked(q, taskId) ==
    [q EXCEPT !.downloadQueue = Append(@, taskId),
              !.emitted = [type |-> "added", id |-> taskId, stage |-> "download"]]

add(q, taskId) ==
    IF isTaskInAnyQueue(q, taskId) THEN q
    ELSE [q EXCEPT !.downloadQueue = Append(@, taskId),
                   !.emitted = [type |-> "added", id |-> taskId, stage |-> "download"]]

\* (a as any).priority || 0
PriorityOf(t) == IF t.hasPriority THEN t.priority ELSE 0

\* a comparator that puts the lower priority first
compare_ascending(a, b, ts) == PriorityOf(ts[a]) - PriorityOf(ts[b])

\* the comparator of sortQueueByPriority: priorityB - priorityA
compare(a, b, ts) == PriorityOf(ts[b]) - PriorityOf(ts[a])

\* Array.prototype.sort is stable: insert each element after the elements
\* that do not compare after it
RECURSIVE InsertByPriority(_, _, _)
InsertByPriority(sorted, x, ts) ==
    IF sorted = <<>> THEN <<x>>
    ELSE IF compare(Head(sorted), x, ts) <= 0
         THEN <<Head(sorted)>> \o InsertByPriority(Tail(sorted), x, ts)
         ELSE <<x>> \o sorted

RECURSIVE SortFrom(_, _, _)
SortFrom(sorted, rest, ts) ==
    IF rest = <<>> THEN sorted
    ELSE SortFrom(InsertByPriority(sorted, Head(rest), ts), Tail(rest), ts)

\* a sort that leaves the queue in the reverse of the sorted order
sortQueueByPriority_reversed(queue, ts) ==
    [i \in 1..Len(queue) |-> SortFrom(<<>>, queue, ts)[Len(queue) + 1 - i]]

sortQueueByPriority(queue, ts) == SortFrom(<<>>, queue, ts)

\* nextDownload without the test of the in-flight count against the cap
nextDownloadResult_uncapped(q, ts) ==
    IF Len(q.downloadQueue) = 0 THEN 0
    ELSE Head(sortQueueByPriority(q.downloadQueue, ts))

\* the task nextDownload returns, 0 for null
nextDownloadResult(q, ts) ==
    IF Len(q.downloadQueue) = 0 \/ Cardinality(q.processingDownload) >= q.maxDownloadConcurrent
    THEN 0
    ELSE Head(sortQueueByPriority(q.downloadQueue, ts))

nextDownload(q, ts) ==
    IF nextDownloadResult(q, ts) = 0 THEN q
    ELSE LET sorted == sortQueueByPriority(q.downloadQueue, ts)
         IN [q EXCEPT !.downloadQueue = Tail(sorted),
                      !.processingDownload = @ \cup {Head(sorted)},
                      !.emitted = [type |-> "started", id |-> Head(sorted), stage |-> "download"]]

nextConvertResult(q, ts) ==
    IF Len(q.convertQueue) = 0 \/ Cardinality(q.processingConvert) >= q.maxConvertConcurrent
    THEN 0
    ELSE Head(sortQueueByPriority(q.convertQueue, ts))

\* nextConvert that leaves the task it returns in the waiting list
nextConvert_copied(q, ts) ==
    IF nextConvertResult(q, ts) = 0 THEN q
    ELSE LET sorted == sortQueueByPriority(q.convertQueue, ts)
         IN [q EXCEPT !.convertQueue = sorted,
                      !.processingConvert = @ \cup {Head(sorted)},
                      !.emitted = [type |-> "started", id |-> Head(sorted), stage |-> "convert"]]

nextConvert(q, ts) ==
    IF nextConvertResult(q, ts) = 0 THEN q
    ELSE LET sorted == sortQueueByPriority(q.convertQueue, ts)
         IN [q EXCEPT !.convertQueue = Tail(sorted),
                      !.processingConvert = @ \cup {Head(sorted)},
                      !.emitted = [type |-> "started", id |-> Head(sorted), stage |-> "convert"]]

nextUploadResult(q, ts) ==
    IF Len(q.uploadQueue) = 0 \/ Cardinality(q.processingUpload) >= q.maxUploadConcurrent
    THEN 0
    ELSE Head(sortQueueByPriority(q.uploadQueue, ts))

nextUpload(q, ts) ==
    IF nextUploadResult(q, ts) = 0 THEN q
    ELSE LET sorted == sortQueueByPriority(q.uploadQueue, ts)
         IN [q EXCEPT !.uploadQueue = Tail(sorted),
                      !.processingUpload = @ \cup {Head(sorted)},
                      !.emitted = [type |-> "started", id |-> Head(sorted), stage |-> "upload"]]

\* completeDownload that leaves the task in the in-flight set
completeDownload_kept(q, taskId) ==
    IF taskId \in q.processingDownload
    THEN [q EXCEPT !.convertQueue = Append(@, taskId),
                   !.emitted = [type |-> "stageCompleted", id |-> taskId, stage |-> "download"]]
    ELSE q

completeDownload(q, taskId) ==
    IF taskId \in q.processingDownload
    THEN [q EXCEPT !.processingDownload = @ \ {taskId},
                   !.convertQueue = Append(@, taskId),
                   !.emitted = [type |-> "stageCompleted", id |-> taskId, stage |-> "download"]]
    ELSE q

\* completeConvert that leaves the task in the in-flight set
completeConvert_kept(q, taskId) ==
    IF taskId \in q.processingConvert
    THEN [q EXCEPT !.uploadQueue = Append(@, taskId),
                   !.emitted = [type |-> "stageCompleted", id |-> taskId, stage |-> "convert"]]
    ELSE q

completeConvert(q, taskId) ==
    IF taskId \in q.processingConvert
    THEN [q EXCEPT !.processingConvert = @ \ {taskId},
                   !.uploadQueue = Append(@, taskId),
                   !.emitted = [type |-> "stageCompleted", id |-> taskId, stage |-> "convert"]]
    ELSE q

completeUpload(q, taskId) ==
    IF taskId \in q.processingUpload
    THEN [q EXCEPT !.processingUpload = @ \ {taskId},
                   !.emitted = [type |-> "completed", id |-> taskId, stage |-> "upload"]]
    ELSE q

fail(q, taskId, stage) ==
    [q EXCEPT !.processingDownload = IF stage = "download" THEN @ \ {taskId} ELSE @,
              !.processingConvert = IF stage = "convert" THEN @ \ {taskId} ELSE @,
              !.processingUpload = IF stage = "upload" THEN @ \ {taskId} ELSE @,
              !.emitted = [type |-> "failed", id |-> taskId, stage |-> stage]]

\* a capacity test that always answers yes
hasCapacity_always(q, stage) == TRUE

hasCapacity(q, stage) ==
    CASE stage = "download" -> Cardinality(q.processingDownload) < q.maxDownloadConcurrent
      [] stage = "convert" -> Cardinality(q.processingConvert) < q.maxConvertConcurrent
      [] stage = "upload" -> Cardinality(q.processingUpload) < q.maxUploadConcurrent
      [] OTHER -> FALSE

hasDownloadCapacity(q) == hasCapacity(q, "download")

(***************************************************************************)
(* RunnerService state other than the queue.                               *)
(***************************************************************************)
NoCarry == [present |-> FALSE, downloadedFilePath |-> FALSE, convertedFilePath |-> FALSE]
EmptyCarry == [NoCarry EXCEPT !.present = TRUE]

NoFiles == [taskDir |-> FALSE, downloadedFile |-> FALSE, convertedFile |-> FALSE]

IdleSlot == [id |-> 0, phase |-> "idle"]
IdleLoop == [pc |-> "sleep", download |-> IdleSlot, convert |-> IdleSlot, upload |-> IdleSlot]
IdlePoll == [pc |-> "idle", id |-> 0, status |-> "none"]

\* history of the waiting lists: nothing has entered yet
NoArrival == [download |-> <<>>, convert |-> <<>>, upload |-> <<>>]

\* the ids now waiting, those already waiting in their order of entry,
\* followed by the ones that have just entered
ArrivalOrder(old, waiting) ==
    SelectSeq(old, LAMBDA x : x \in Range(waiting))
        \o SelectSeq(waiting, LAMBDA x : x \notin Range(old))

ArrivalAfter(arr, q) ==
    [download |-> ArrivalOrder(arr.download, q.downloadQueue),
     convert |-> ArrivalOrder(arr.convert, q.convertQueue),
     upload |-> ArrivalOrder(arr.upload, q.uploadQueue)]

\* the control plane before any request: every task WAITING, no handler
\* running; a handler record keeps the task of the runner's last start call
\* and the answer the runner received, "success" or "notFound"
IdleHandler == [pc |-> "idle", id |-> 0, answer |-> "none"]
IdleServer ==
    [db |-> [id \in OfferedIds |-> "WAITING"],
     handler |-> [r \in Runners |-> IdleHandler]]

\* a RunnerService that has been constructed and not started, and its
\* fields at the moment start() is called: no timer, no operation in flight,
\* no encoder subprocess
NoProbe == [raised |-> FALSE, encoder |-> "none", degraded |-> FALSE]
NotStarted == [pc |-> "new"]
Starting ==
    [pc |-> "new", steps |-> <<>>, minio |-> "none", probe |-> NoProbe, cause |-> "none",
     machine |-> FALSE, running |-> FALSE, heartbeatTimer |-> FALSE, taskCheckTimer |-> FALSE,
     looping |-> FALSE, beat |-> "none", inflight |-> {}, encoder |-> "none", late |-> {},
     poll |-> "idle", lateStart |-> FALSE, lateAdd |-> FALSE, lateDispatch |-> FALSE]

\* no download, no upload and no HTTP call has been asked for yet, and the
\* fields each of them has when it is created
NoDownload == [pc |-> "none"]
NewDownload ==
    [mode |-> "none", pc |-> "none", total |-> 0,
     contentLength |-> 0, written |-> 0, stage |-> "download", code |-> "none",
     numChunks |-> 0, part |-> <<>>, downloaded |-> <<>>, tries |-> <<>>, finished |-> {},
     handed |-> <<>>, merged |-> 0, inOrder |-> TRUE, early |-> {}, restarts |-> 0,
     downloadedSize |-> 0, emitted |-> FALSE, progress |-> 0]
NoUpload == [pc |-> "none"]
NewUpload ==
    [pc |-> "none", exists |-> FALSE, size |-> 0, partCount |-> 0, next |-> 0, parts |-> {},
     final |-> FALSE, writes |-> 0, partWrites |-> 0, error |-> "none"]
NoCall == [pc |-> "none"]
NewCall ==
    [pc |-> "none", url |-> "none", retries |-> 0, attempts |-> 0, slept |-> <<>>,
     errors |-> <<>>, outcome |-> "none"]

\* no transcode has been asked for yet
NoTranscode == [pc |-> "none"]

\* TaskProcessor.process has not been called yet
NoRun == [pc |-> "idle", calls |-> 0]

RunnerRest ==
    /\ tasks = [id \in TaskIds |-> NoTask]
    /\ taskStates = [id \in TaskIds |-> NoCarry]
    /\ disk = [id \in TaskIds |-> NoFiles]
    /\ http = {}
    /\ procEmitted = NoEvent
    /\ terminal = {}
    /\ loop = IdleLoop
    /\ poll = IdlePoll
    /\ fetched = 0
    /\ arrival = NoArrival
    /\ server = IdleServer
    /\ boot = NotStarted
    /\ dl = NoDownload
    /\ up = NoUpload
    /\ call = NoCall
    /\ enc = NoTranscode
    /\ run = NoRun

(***************************************************************************)
(* QSpec: a client constructs a TaskQueue with any caps and calls its      *)
(* operations in any order.                                                *)
(***************************************************************************)
QInit ==
    /\ \E d \in 1..MaxCap, c \in 1..MaxCap, u \in 1..MaxCap : taskQueue = NewTaskQueue(d, c, u)
    /\ RunnerRest

\* the task objects the queue still refers to; the client drops the others
Held(q, ts) == [id \in TaskIds |-> IF isTaskInAnyQueue(q, id) THEN ts[id] ELSE NoTask]

\* no listener is attached to the queue under test: emit delivers to nobody
Silent(q) == [q EXCEPT !.emitted = NoEvent]

QUnchanged ==
    /\ arrival' = ArrivalAfter(arrival, taskQueue')
    /\ UNCHANGED <<taskStates, disk, http, procEmitted, terminal, loop, poll, fetched, server>>
    /\ UNCHANGED <<boot, dl, up, call, enc, run>>

\* the priorities a client gives a task: NoPriority for a task without the field
NoPriority == -1
QPriorities == Priorities \cup {NoPriority}

QAdd(id, p) ==
    /\ taskQueue' = Silent(add(taskQueue, id))
    /\ tasks' = IF isTaskInAnyQueue(taskQueue, id) THEN tasks
                ELSE [tasks EXCEPT ![id] =
                         NewTask(p # NoPriority, IF p = NoPriority THEN 0 ELSE p)]
    /\ QUnchanged

QNextDownload ==
    /\ taskQueue' = Silent(nextDownload(taskQueue, tasks))
    /\ UNCHANGED tasks
    /\ QUnchanged

QNextConvert ==
    /\ taskQueue' = Silent(nextConvert(taskQueue, tasks))
    /\ UNCHANGED tasks
    /\ QUnchanged

QNextUpload ==
    /\ taskQueue' = Silent(nextUpload(taskQueue, tasks))
    /\ UNCHANGED tasks
    /\ QUnchanged

QCompleteDownload(id) ==
    /\ taskQueue' = Silent(completeDownload(taskQueue, id))
    /\ UNCHANGED tasks
    /\ QUnchanged

QCompleteConvert(id) ==
    /\ taskQueue' = Silent(completeConvert(taskQueue, id))
    /\ UNCHANGED tasks
    /\ QUnchanged

QCompleteUpload(id) ==
    /\ taskQueue' = Silent(completeUpload(taskQueue, id))
    /\ tasks' = Held(completeUpload(taskQueue, id), tasks)
    /\ QUnchanged

QFail(id, stage) ==
    /\ taskQueue' = Silent(fail(taskQueue, id, stage))
    /\ tasks' = Held(fail(taskQueue, id, stage), tasks)
    /\ QUnchanged

QNext ==
    \/ \E id \in OfferedIds, p \in QPriorities : QAdd(id, p)
    \/ QNextDownload
    \/ QNextConvert
    \/ QNextUpload
    \/ \E id \in OfferedIds : QCompleteDownload(id)
    \/ \E id \in OfferedIds : QCompleteConvert(id)
    \/ \E id \in OfferedIds : QCompleteUpload(id)
    \/ \E id \in OfferedIds, stage \in Stages : QFail(id, stage)

QSpec == QInit /\ [][QNext]_vars

(***************************************************************************)
(* Spec: the RunnerService.  The control plane is external: getTask may    *)
(* answer with any task in any status and start may succeed, refuse or     *)
(* fail; downloads, transcodes and uploads may succeed or raise.           *)
(***************************************************************************)
RemoteStatuses == {"WAITING", "RUNNING", "FINISHED", "FAILED"}
ErrorCodes == {"DOWNLOAD_ERROR", "CONVERT_ERROR", "UPLOAD_ERROR", "CONFIG_ERROR", "UNEXPECTED_ERROR"}

\* new TaskQueue(1, 1, 1) in the RunnerService constructor
Init ==
    /\ taskQueue = NewTaskQueue(1, 1, 1)
    /\ RunnerRest

\* adaptTask: id, status and source are copied, the priority is not
adaptTask(remoteStatus, remotePriority) ==
    [NewTask(FALSE, 0) EXCEPT !.status = remoteStatus, !.statusLog = <<remoteStatus>>]

\* the priority the control plane has given each task it offers
RemotePriority(id) == (id - 1) % (MaxPriority + 1)

\* what every step of the runner does besides its own effect: the waiting
\* history follows the queue and the control plane's handlers are not run
RunnerOnly ==
    /\ arrival' = ArrivalAfter(arrival, taskQueue')
    /\ UNCHANGED <<server, boot, dl, up, call, enc, run>>

\* the dispatch loop is suspended at an await, so timers and I/O callbacks may run
LoopYielded == loop.pc \in {"sleep", "await"}

\* the queue emitted 'completed' or 'failed' for the task: it is terminal
TerminalAfter(term, q) ==
    IF q.emitted.type \in {"completed", "failed"} THEN term \cup {q.emitted.id} ELSE term

\* this.taskStates.set(task.id, {}) in checkAndFetchNewTask
SeedCarry(carry) == EmptyCarry

\* a 'complete' handler that does not save the path
CarryAfterDownload_dropped(carry, t) == carry

\* downloadProcessor 'complete' handler: the path is saved when the task has one
CarryAfterDownload(carry, t) ==
    IF t.downloadedFilePath
    THEN [carry EXCEPT !.present = TRUE, !.downloadedFilePath = TRUE]
    ELSE carry

\* convertProcessor 'complete' handler
CarryAfterConvert(carry, t) ==
    IF t.convertedFilePath
    THEN [carry EXCEPT !.present = TRUE, !.convertedFilePath = TRUE]
    ELSE carry

\* WaitingState.process followed by the entry of DownloadingState.process
EnterDownloading(t) == SetStatus(SetStatus(t, "WAITING"), "DOWNLOADING")

\* entry of ConvertingState.process
EnterConverting(t) == SetStatus(t, "CONVERTING")

\* an UploadingState that does not set task.status on entry
EnterUploading_unset(t) == t

\* entry of UploadingState.process
EnterUploading(t) == SetStatus(t, "UPLOADING")

\* UploadingState.process after a successful upload
FinishUploading(t) == [SetStatus(t, "FINISHED") EXCEPT !.uploadInfo = TRUE]

\* the catch block of a state: task.status = FAILED, task.error = { message, code }
FailTask(t, code) ==
    [SetStatus(t, "FAILED") EXCEPT !.error = [code |-> code, message |-> "message"]]

\* TaskProcessor.process awaits initialState.process and discards the state
\* it returns: the calls the processor sends for that returned state
HttpAfterReturnedState(h, id, returned) == h

\* files after the processor has handled the state returned by a stage
DiskAfterReturnedState(files, returned) == files

\* the error handlers of the runner call taskQueue.fail and taskStates.delete;
\* no FailedState is constructed: the calls sent by an error handler
HttpAfterErrorHandler(h, id) == h

\* files after an error handler has run
DiskAfterErrorHandler(files) == files

(* checkAndFetchNewTask, up to the GET /runner/getTask request *)
PollGetTask ==
    /\ LoopYielded
    /\ poll.pc = "idle"
    /\ hasDownloadCapacity(taskQueue)
    /\ poll' = [poll EXCEPT !.pc = "getTask"]
    /\ UNCHANGED <<taskQueue, tasks, taskStates, disk, http, procEmitted, terminal, loop, fetched>>
    /\ RunnerOnly

(* the getTask response: no task, a task that is skipped, or a WAITING task
   for which POST /runner/<id>/start is sent *)
PollGetTaskResponse ==
    /\ LoopYielded
    /\ poll.pc = "getTask"
    /\ \/ /\ poll' = IdlePoll
          /\ UNCHANGED http
       \/ \E id \in OfferedIds, st \in RemoteStatuses :
             IF st # "WAITING"
             THEN /\ poll' = IdlePoll
                  /\ UNCHANGED http
             ELSE /\ poll' = [pc |-> "start", id |-> id, status |-> st]
                  /\ http' = http \cup {<<"start", id>>}
    /\ UNCHANGED <<taskQueue, tasks, taskStates, disk, procEmitted, terminal, loop, fetched>>
    /\ RunnerOnly

(* a refused start that seeds the carry entry all the same *)
PollStartRefused_seeds ==
    /\ LoopYielded
    /\ poll.pc = "start"
    /\ poll' = IdlePoll
    /\ taskStates' = [taskStates EXCEPT ![poll.id] = SeedCarry(@)]
    /\ UNCHANGED <<taskQueue, tasks, disk, http, procEmitted, terminal, loop, fetched>>
    /\ RunnerOnly

(* the start response is not { success: true }, or the call raised *)
PollStartRefused ==
    /\ LoopYielded
    /\ poll.pc = "start"
    /\ poll' = IdlePoll
    /\ UNCHANGED <<taskQueue, tasks, taskStates, disk, http, procEmitted, terminal, loop, fetched>>
    /\ RunnerOnly

(* the start response is { success: true }: adapt the task that getTask
   returned, seed the carry, add *)
PollStartSucceeded ==
    /\ LoopYielded
    /\ poll.pc = "start"
    /\ fetched < MaxFetch
    /\ LET id == poll.id
           t == adaptTask(poll.status, RemotePriority(poll.id))
       IN IF t.status # "WAITING"
          THEN UNCHANGED <<taskQueue, tasks, taskStates>>
          ELSE /\ taskStates' = [taskStates EXCEPT ![id] = SeedCarry(@)]
               /\ taskQueue' = add(taskQueue, id)
               /\ tasks' = IF isTaskInAnyQueue(taskQueue, id) THEN tasks
                           ELSE [tasks EXCEPT ![id] = t]
    /\ fetched' = fetched + 1
    /\ poll' = IdlePoll
    /\ UNCHANGED <<disk, http, procEmitted, terminal, loop>>
    /\ RunnerOnly

(* processDownloadTasks up to its first suspension: nextDownload, then
   WaitingState, the entry of DownloadingState and the Downloader constructor *)
ProcessDownloadTasks ==
    /\ loop.pc = "sleep"
    /\ LET id == nextDownloadResult(taskQueue, tasks)
       IN /\ taskQueue' = nextDownload(taskQueue, tasks)
          /\ IF id = 0
             THEN /\ loop' = [loop EXCEPT !.pc = "convert"]
                  /\ UNCHANGED <<tasks, disk>>
             ELSE /\ tasks' = [tasks EXCEPT ![id] = EnterDownloading(@)]
                  /\ disk' = [disk EXCEPT ![id].taskDir = TRUE]
                  /\ loop' = [loop EXCEPT !.pc = "convert",
                                          !.download = [id |-> id, phase |-> "downloading"]]
    /\ UNCHANGED <<taskStates, http, procEmitted, terminal, poll, fetched>>
    /\ RunnerOnly

(* Downloader.download returned a path: the task gets it and
   POST /runner/<id>/downloadComplete is sent *)
DownloadSucceeds ==
    /\ loop.pc = "await"
    /\ loop.download.phase = "downloading"
    /\ LET id == loop.download.id
       IN /\ disk' = [disk EXCEPT ![id].downloadedFile = TRUE]
          /\ tasks' = [tasks EXCEPT ![id].downloadedFilePath = TRUE]
          /\ http' = http \cup {<<"downloadComplete", id>>}
          /\ loop' = [loop EXCEPT !.download.phase = "notify"]
    /\ UNCHANGED <<taskQueue, taskStates, procEmitted, terminal, poll, fetched>>
    /\ RunnerOnly

(* a 'complete' handler that saves the path and forgets completeDownload *)
DownloadStageCompletes_forgets ==
    /\ loop.pc = "await"
    /\ loop.download.phase = "notify"
    /\ LET id == loop.download.id
       IN /\ procEmitted' = [stage |-> "download", type |-> "complete", id |-> id]
          /\ taskStates' = [taskStates EXCEPT ![id] = CarryAfterDownload(@, tasks[id])]
          /\ loop' = [loop EXCEPT !.download = IdleSlot]
    /\ UNCHANGED <<taskQueue, tasks, disk, http, terminal, poll, fetched>>
    /\ RunnerOnly

(* the downloadComplete call returned or raised (ignored either way):
   DownloadingState returns null, the processor emits 'complete' and the
   runner's handler saves the path and calls completeDownload *)
DownloadStageCompletes ==
    /\ loop.pc = "await"
    /\ loop.download.phase = "notify"
    /\ LET id == loop.download.id
       IN /\ procEmitted' = [stage |-> "download", type |-> "complete", id |-> id]
          /\ taskStates' = [taskStates EXCEPT ![id] = CarryAfterDownload(@, tasks[id])]
          /\ taskQueue' = completeDownload(taskQueue, id)
          /\ loop' = [loop EXCEPT !.download = IdleSlot]
    /\ UNCHANGED <<tasks, disk, http, terminal, poll, fetched>>
    /\ RunnerOnly

(* Downloader.download raised: the partial file is unlinked, the state marks
   the task FAILED, the processor emits 'error', the handler fails the task *)
DownloadFails ==
    /\ loop.pc = "await"
    /\ loop.download.phase = "downloading"
    /\ LET id == loop.download.id
           q == fail(taskQueue, id, "download")
       IN /\ tasks' = [tasks EXCEPT ![id] = FailTask(@, "DOWNLOAD_ERROR")]
          /\ procEmitted' = [stage |-> "download", type |-> "error", id |-> id]
          /\ taskQueue' = q
          /\ terminal' = TerminalAfter(terminal, q)
          /\ taskStates' = [taskStates EXCEPT ![id] = NoCarry]
          /\ http' = HttpAfterErrorHandler(http, id)
          /\ disk' = [disk EXCEPT ![id] = DiskAfterErrorHandler([@ EXCEPT !.downloadedFile = FALSE])]
          /\ loop' = [loop EXCEPT !.download = IdleSlot]
    /\ UNCHANGED <<poll, fetched>>
    /\ RunnerOnly

(* processConvertTasks up to its first suspension: nextConvert, the carry
   lookup (raising in the runner when the path is missing), the entry of
   ConvertingState and the Converter constructor *)
ProcessConvertTasks ==
    /\ loop.pc = "convert"
    /\ LET id == nextConvertResult(taskQueue, tasks)
           q == nextConvert(taskQueue, tasks)
       IN IF id = 0
          THEN /\ loop' = [loop EXCEPT !.pc = "upload"]
               /\ taskQueue' = q
               /\ UNCHANGED <<tasks, taskStates, disk, http, procEmitted, terminal>>
          ELSE IF ~taskStates[id].downloadedFilePath
          THEN \* throw new Error('No download path found in cache'), caught by the runner
               /\ taskQueue' = fail(q, id, "convert")
               /\ terminal' = TerminalAfter(terminal, fail(q, id, "convert"))
               /\ taskStates' = [taskStates EXCEPT ![id] = NoCarry]
               /\ loop' = [loop EXCEPT !.pc = "upload"]
               /\ UNCHANGED <<tasks, disk, http, procEmitted>>
          ELSE IF ~disk[id].downloadedFile
          THEN \* ConvertingState: Downloaded file not found
               /\ tasks' = [tasks EXCEPT ![id] =
                               FailTask(EnterConverting([@ EXCEPT !.downloadedFilePath = TRUE]),
                                        "CONVERT_ERROR")]
               /\ procEmitted' = [stage |-> "convert", type |-> "error", id |-> id]
               /\ taskQueue' = fail(q, id, "convert")
               /\ terminal' = TerminalAfter(terminal, fail(q, id, "convert"))
               /\ taskStates' = [taskStates EXCEPT ![id] = NoCarry]
               /\ http' = HttpAfterErrorHandler(http, id)
               /\ disk' = [disk EXCEPT ![id] = DiskAfterErrorHandler(@)]
               /\ loop' = [loop EXCEPT !.pc = "upload"]
          ELSE /\ tasks' = [tasks EXCEPT ![id] = EnterConverting([@ EXCEPT !.downloadedFilePath = TRUE])]
               /\ disk' = [disk EXCEPT ![id].convertedFile = TRUE]
               /\ taskQueue' = q
               /\ loop' = [loop EXCEPT !.pc = "upload",
                                       !.convert = [id |-> id, phase |-> "converting"]]
               /\ UNCHANGED <<taskStates, http, procEmitted, terminal>>
    /\ UNCHANGED <<poll, fetched>>
    /\ RunnerOnly

(* Converter.convert resolved: ConvertingState records the output path and
   returns null, the processor emits 'complete', the handler saves the path
   and calls completeConvert *)
ConvertSucceeds ==
    /\ loop.pc = "await"
    /\ loop.convert.phase = "converting"
    /\ LET id == loop.convert.id
           t == [tasks[id] EXCEPT !.convertedFilePath = TRUE]
       IN /\ tasks' = [tasks EXCEPT ![id] = t]
          /\ procEmitted' = [stage |-> "convert", type |-> "complete", id |-> id]
          /\ taskStates' = [taskStates EXCEPT ![id] = CarryAfterConvert(@, t)]
          /\ taskQueue' = completeConvert(taskQueue, id)
          /\ loop' = [loop EXCEPT !.convert = IdleSlot]
    /\ UNCHANGED <<disk, http, terminal, poll, fetched>>
    /\ RunnerOnly

(* Converter.convert rejected *)
ConvertFails ==
    /\ loop.pc = "await"
    /\ loop.convert.phase = "converting"
    /\ LET id == loop.convert.id
           q == fail(taskQueue, id, "convert")
       IN /\ tasks' = [tasks EXCEPT ![id] = FailTask(@, "CONVERT_ERROR")]
          /\ procEmitted' = [stage |-> "convert", type |-> "error", id |-> id]
          /\ taskQueue' = q
          /\ terminal' = TerminalAfter(terminal, q)
          /\ taskStates' = [taskStates EXCEPT ![id] = NoCarry]
          /\ http' = HttpAfterErrorHandler(http, id)
          /\ disk' = [disk EXCEPT ![id] = DiskAfterErrorHandler(@)]
          /\ loop' = [loop EXCEPT !.convert = IdleSlot]
    /\ UNCHANGED <<poll, fetched>>
    /\ RunnerOnly

(* processUploadTasks up to its first suspension: nextUpload, the carry
   lookup, the entry of UploadingState and the GET /runner/minio request *)
ProcessUploadTasks ==
    /\ loop.pc = "upload"
    /\ LET id == nextUploadResult(taskQueue, tasks)
           q == nextUpload(taskQueue, tasks)
       IN IF id = 0
          THEN /\ loop' = [loop EXCEPT !.pc = "await"]
               /\ taskQueue' = q
               /\ UNCHANGED <<tasks, taskStates, terminal>>
          ELSE IF ~taskStates[id].convertedFilePath
          THEN \* throw new Error('No converted path found in cache'), caught by the runner
               /\ taskQueue' = fail(q, id, "upload")
               /\ terminal' = TerminalAfter(terminal, fail(q, id, "upload"))
               /\ taskStates' = [taskStates EXCEPT ![id] = NoCarry]
               /\ loop' = [loop EXCEPT !.pc = "await"]
               /\ UNCHANGED tasks
          ELSE /\ tasks' = [tasks EXCEPT ![id] = EnterUploading([@ EXCEPT !.convertedFilePath = TRUE])]
               /\ taskQueue' = q
               /\ loop' = [loop EXCEPT !.pc = "await",
                                       !.upload = [id |-> id, phase |-> "uploading"]]
               /\ UNCHANGED <<taskStates, terminal>>
    /\ UNCHANGED <<disk, http, procEmitted, poll, fetched>>
    /\ RunnerOnly

(* Uploader.upload returned: UploadingState sets FINISHED and returns a
   CompleteState; the processor emits 'complete'; the handler calls
   completeUpload and deletes the carry entry *)
UploadSucceeds ==
    /\ loop.pc = "await"
    /\ loop.upload.phase = "uploading"
    /\ LET id == loop.upload.id
           q == completeUpload(taskQueue, id)
       IN /\ tasks' = [tasks EXCEPT ![id] = FinishUploading(@)]
          /\ http' = HttpAfterReturnedState(http, id, "CompleteState")
          /\ disk' = [disk EXCEPT ![id] = DiskAfterReturnedState(@, "CompleteState")]
          /\ procEmitted' = [stage |-> "upload", type |-> "complete", id |-> id]
          /\ taskQueue' = q
          /\ terminal' = TerminalAfter(terminal, q)
          /\ taskStates' = [taskStates EXCEPT ![id] = NoCarry]
          /\ loop' = [loop EXCEPT !.upload = IdleSlot]
    /\ UNCHANGED <<poll, fetched>>
    /\ RunnerOnly

(* GET /runner/minio or Uploader.upload raised *)
UploadFails ==
    /\ loop.pc = "await"
    /\ loop.upload.phase = "uploading"
    /\ LET id == loop.upload.id
           q == fail(taskQueue, id, "upload")
       IN /\ tasks' = [tasks EXCEPT ![id] = FailTask(@, "UPLOAD_ERROR")]
          /\ procEmitted' = [stage |-> "upload", type |-> "error", id |-> id]
          /\ taskQueue' = q
          /\ terminal' = TerminalAfter(terminal, q)
          /\ taskStates' = [taskStates EXCEPT ![id] = NoCarry]
          /\ http' = HttpAfterErrorHandler(http, id)
          /\ disk' = [disk EXCEPT ![id] = DiskAfterErrorHandler(@)]
          /\ loop' = [loop EXCEPT !.upload = IdleSlot]
    /\ UNCHANGED <<poll, fetched>>
    /\ RunnerOnly

(* Promise.all of the three stage calls has settled: sleep 500 ms *)
LoopIterationEnds ==
    /\ loop.pc = "await"
    /\ loop.download = IdleSlot
    /\ loop.convert = IdleSlot
    /\ loop.upload = IdleSlot
    /\ loop' = [loop EXCEPT !.pc = "sleep"]
    /\ UNCHANGED <<taskQueue, tasks, taskStates, disk, http, procEmitted, terminal, poll, fetched>>
    /\ RunnerOnly

Next ==
    \/ PollGetTask
    \/ PollGetTaskResponse
    \/ PollStartRefused
    \/ PollStartSucceeded
    \/ ProcessDownloadTasks
    \/ DownloadSucceeds
    \/ DownloadStageCompletes
    \/ DownloadFails
    \/ ProcessConvertTasks
    \/ ConvertSucceeds
    \/ ConvertFails
    \/ ProcessUploadTasks
    \/ UploadSucceeds
    \/ UploadFails
    \/ LoopIterationEnds

Spec == Init /\ [][Next]_vars

(* LiveSpec: the runner with the scheduling the code guarantees.  The
   dispatch loop runs as long as the runner does (every step of an iteration
   that can be taken is taken), and every download, transcode, upload and
   HTTP call ends, with either outcome.  The control plane has only MaxAdds
   tasks bound: later start calls are refused. *)
Fairness ==
    /\ WF_vars(ProcessDownloadTasks)
    /\ WF_vars(ProcessConvertTasks)
    /\ WF_vars(ProcessUploadTasks)
    /\ WF_vars(LoopIterationEnds)
    /\ WF_vars(DownloadSucceeds \/ DownloadFails)
    /\ WF_vars(DownloadStageCompletes)
    /\ WF_vars(ConvertSucceeds \/ ConvertFails)
    /\ WF_vars(UploadSucceeds \/ UploadFails)
    /\ WF_vars(PollGetTaskResponse)
    /\ WF_vars(PollStartRefused \/ PollStartSucceeded)

AddsLeft == fetched < MaxAdds

LiveNext ==
    \/ PollGetTask
    \/ PollGetTaskResponse
    \/ PollStartRefused
    \/ AddsLeft /\ PollStartSucceeded
    \/ ProcessDownloadTasks
    \/ DownloadSucceeds
    \/ DownloadStageCompletes
    \/ DownloadFails
    \/ ProcessConvertTasks
    \/ ConvertSucceeds
    \/ ConvertFails
    \/ ProcessUploadTasks
    \/ UploadSucceeds
    \/ UploadFails
    \/ LoopIterationEnds

LiveSpec == Init /\ [][LiveNext]_vars /\ Fairness

(***************************************************************************)
(* ScenarioSpec: the RunnerService (caps 1/1/1) when the control plane     *)
(* hands out tasks 1, 2, ..., ScenarioTasks in that order, each once and   *)
(* WAITING, every start succeeds and every stage succeeds.  The tasks      *)
(* carry no priority after adaptTask, so they are of equal priority.       *)
(***************************************************************************)
(* the getTask response of the scenario: no task yet, or the next task *)
ScenarioGetTaskResponse ==
    /\ LoopYielded
    /\ poll.pc = "getTask"
    /\ \/ /\ poll' = IdlePoll
          /\ UNCHANGED http
       \/ /\ fetched < ScenarioTasks
          /\ poll' = [pc |-> "start", id |-> fetched + 1, status |-> "WAITING"]
          /\ http' = http \cup {<<"start", fetched + 1>>}
    /\ UNCHANGED <<taskQueue, tasks, taskStates, disk, procEmitted, terminal, loop, fetched>>
    /\ RunnerOnly

ScenarioNext ==
    \/ PollGetTask
    \/ ScenarioGetTaskResponse
    \/ PollStartSucceeded
    \/ ProcessDownloadTasks
    \/ DownloadSucceeds
    \/ DownloadStageCompletes
    \/ ProcessConvertTasks
    \/ ConvertSucceeds
    \/ ProcessUploadTasks
    \/ UploadSucceeds
    \/ LoopIterationEnds

ScenarioSpec == Init /\ [][ScenarioNext]_vars

(***************************************************************************)
(* ServerSpec: the control plane's RunnerController (controllers/runner.ts)*)
(* serving several runners.  A handler is suspended at each await on the   *)
(* database, where the handlers of other requests may run.                 *)
(***************************************************************************)
ServerOnly ==
    UNCHANGED <<taskQueue, tasks, taskStates, disk, http, procEmitted, terminal, loop, poll,
                fetched, arrival, boot, dl, up, call, enc, run>>

(* startTask up to the end of prisma.task.findFirst({ id, status: WAITING }):
   no such task answers 404, otherwise the handler goes on to the update *)
StartTaskFind(r, id) ==
    /\ server.handler[r].pc = "idle"
    /\ IF server.db[id] = "WAITING"
       THEN server' = [server EXCEPT !.handler[r] = [pc |-> "found", id |-> id, answer |-> "none"]]
       ELSE server' = [server EXCEPT !.handler[r] = [pc |-> "idle", id |-> id, answer |-> "notFound"]]
    /\ ServerOnly

(* startTask from prisma.task.update({ id }, status: RUNNING) to the
   response { success: true } *)
StartTaskUpdate(r) ==
    /\ server.handler[r].pc = "found"
    /\ server' = [server EXCEPT !.db[server.handler[r].id] = "RUNNING",
                                !.handler[r].pc = "idle",
                                !.handler[r].answer = "success"]
    /\ ServerOnly

(* completeTask, called by a runner for the task it has started *)
CompleteTask(r) ==
    /\ server.handler[r].pc = "idle"
    /\ server.handler[r].answer = "success"
    /\ server.db[server.handler[r].id] = "RUNNING"
    /\ server' = [server EXCEPT !.db[server.handler[r].id] = "FINISHED"]
    /\ ServerOnly

(* failTask, called by a runner for the task it has started *)
ServerFailTask(r) ==
    /\ server.handler[r].pc = "idle"
    /\ server.handler[r].answer = "success"
    /\ server.db[server.handler[r].id] = "RUNNING"
    /\ server' = [server EXCEPT !.db[server.handler[r].id] = "FAILED"]
    /\ ServerOnly

ServerNext ==
    \/ \E r \in Runners, id \in OfferedIds : StartTaskFind(r, id)
    \/ \E r \in Runners : StartTaskUpdate(r)
    \/ \E r \in Runners : CompleteTask(r)
    \/ \E r \in Runners : ServerFailTask(r)

ServerSpec == Init /\ [][ServerNext]_vars

(***************************************************************************)
(* StartupSpec: RunnerService.start, register, startHeartbeat,             *)
(* startTaskProcessing and stop (services/runner.ts), the system probe     *)
(* getSystemInfo and the entry point's SIGINT / SIGTERM handlers.  The     *)
(* operations the dispatch loop has started are kept as the set of stages  *)
(* in flight.                                                              *)
(***************************************************************************)
StartupOnly ==
    UNCHANGED <<taskQueue, tasks, taskStates, disk, http, procEmitted, terminal, loop, poll,
                fetched, arrival, server, dl, up, call, enc, run>>

\* what the operating system answers to the probes: TRUE when the probe
\* answers, FALSE when it fails (si.cpu / si.mem / si.fsSize reject,
\* nvidia-smi exits with an error)
ProbeOutcomes == [cpu : BOOLEAN, mem : BOOLEAN, disk : BOOLEAN, gpu : BOOLEAN]

(* getSystemInfo: the CPU, memory and disk probes are awaited inside a try
   whose catch logs and rethrows; getNvidiaSmiData resolves null on any
   failure and the encoder then stays 'cpu' *)
getSystemInfo(p) ==
    IF p.cpu /\ p.mem /\ p.disk
    THEN [raised |-> FALSE, encoder |-> IF p.gpu THEN "cuda" ELSE "cpu", degraded |-> ~p.gpu]
    ELSE [raised |-> TRUE, encoder |-> "none", degraded |-> TRUE]

\* start() has been called and the process has not exited
Alive == boot.pc \notin {"new", "exited"}

(* start: await mkdir(TMP_DIR, { recursive: true }); a rejection is caught
   by the outer catch, which logs and rethrows *)
StartMkdir(ok) ==
    /\ boot.pc = "new"
    /\ boot' = IF ok
               THEN [Starting EXCEPT !.pc = "minio", !.steps = Append(@, "mkdir")]
               ELSE [Starting EXCEPT !.pc = "failed", !.cause = "mkdir"]
    /\ StartupOnly

(* start: GET /runner/minio inside its own try; the catch only warns *)
StartFetchMinio(ok) ==
    /\ boot.pc = "minio"
    /\ boot' = [boot EXCEPT !.pc = "register",
                            !.minio = IF ok THEN "loaded" ELSE "missing",
                            !.steps = Append(@, "minio")]
    /\ StartupOnly

(* register up to the end of await getSystemInfo(): a probe that raises is
   caught by register, which throws 'Failed to register'; start rethrows *)
RegisterProbe(p) ==
    /\ boot.pc = "register"
    /\ LET r == getSystemInfo(p) IN
       boot' = IF r.raised
               THEN [boot EXCEPT !.pc = "failed", !.cause = "probe", !.probe = r]
               ELSE [boot EXCEPT !.pc = "online", !.probe = r]
    /\ StartupOnly

(* a register whose failed POST is only logged, as the credentials fetch is *)
RegisterOnline_lenient(answer) ==
    /\ boot.pc = "online"
    /\ boot' = [boot EXCEPT !.pc = "registered", !.machine = (answer = "runner"),
                            !.steps = Append(@, "register")]
    /\ StartupOnly

(* register from POST /runner/online to its return: the response must carry
   data.runner, anything else throws 'Failed to register' *)
RegisterOnline(answer) ==
    /\ boot.pc = "online"
    /\ boot' = IF answer = "runner"
               THEN [boot EXCEPT !.pc = "registered", !.machine = TRUE,
                                 !.steps = Append(@, "register")]
               ELSE [boot EXCEPT !.pc = "failed", !.cause = "online"]
    /\ StartupOnly

(* start after await this.register(): startHeartbeat sets the heartbeat
   timer, running becomes true, and startTaskProcessing sets the poll timer
   and enters its while loop, all before the next await *)
StartAfterRegister ==
    /\ boot.pc = "registered"
    /\ boot' = [boot EXCEPT !.pc = "started",
                            !.heartbeatTimer = TRUE,
                            !.running = TRUE,
                            !.taskCheckTimer = TRUE,
                            !.looping = TRUE,
                            !.steps = @ \o <<"heartbeat", "poll", "loop">>]
    /\ StartupOnly

(* one tick of the heartbeat timer: probe and POST inside a try whose catch
   only logs *)
Heartbeat(p, ok) ==
    /\ Alive
    /\ boot.heartbeatTimer
    /\ LET r == getSystemInfo(p) IN
       boot' = [boot EXCEPT !.probe = r,
                            !.beat = IF ~r.raised /\ ok THEN "sent" ELSE "failed"]
    /\ StartupOnly

(* one iteration of the while (this.running) loop: the three process*Tasks
   calls start together, each driving a task when its stage has one; the
   convert operation spawns the encoder *)
Dispatch(started) ==
    /\ Alive
    /\ boot.looping
    /\ boot.running
    /\ boot.inflight = {}
    /\ started # {}
    /\ boot' = [boot EXCEPT !.inflight = started,
                            !.encoder = IF "convert" \in started THEN "running" ELSE @,
                            !.lateDispatch = @ \/ boot.pc = "stopped"]
    /\ StartupOnly

(* the loop reads running again once the iteration's Promise.all and the
   500 ms sleep are over *)
LoopExits ==
    /\ Alive
    /\ boot.looping
    /\ ~boot.running
    /\ boot.inflight = {}
    /\ boot' = [boot EXCEPT !.looping = FALSE]
    /\ StartupOnly

(* an operation in flight reports progress: a 'progress' event and a POST
   to /runner/<id>/<stage>; nothing in it reads running, and late keeps the
   stages that have reported after stop *)
OperationProgress(stage) ==
    /\ Alive
    /\ stage \in boot.inflight
    /\ boot' = [boot EXCEPT !.late = IF boot.running THEN @ ELSE @ \cup {stage}]
    /\ StartupOnly

(* an operation in flight comes to its end *)
OperationEnds(stage) ==
    /\ Alive
    /\ stage \in boot.inflight
    /\ boot' = [boot EXCEPT !.inflight = @ \ {stage},
                            !.encoder = IF stage = "convert" THEN "exited" ELSE @]
    /\ StartupOnly

(* one tick of the task check timer: checkAndFetchNewTask finds download
   capacity and sends GET /runner/getTask *)
PollTick ==
    /\ Alive
    /\ boot.taskCheckTimer
    /\ boot.poll = "idle"
    /\ boot' = [boot EXCEPT !.poll = "getTask"]
    /\ StartupOnly

(* the getTask answer arrives: without a WAITING task, or when the call
   raised, the poll ends; with one, POST /runner/<id>/start is sent.  Nothing
   in checkAndFetchNewTask reads running; lateStart keeps that a start call
   was sent after stop *)
PollTaskAnswer(offered) ==
    /\ Alive
    /\ boot.poll = "getTask"
    /\ boot' = IF offered
               THEN [boot EXCEPT !.poll = "start",
                                 !.lateStart = @ \/ boot.pc = "stopped"]
               ELSE [boot EXCEPT !.poll = "idle"]
    /\ StartupOnly

(* the start answer arrives: on { success: true } the carry is seeded and the
   task is added to the queue; lateAdd keeps that this happened after stop *)
PollStartAnswer(success) ==
    /\ Alive
    /\ boot.poll = "start"
    /\ boot' = [boot EXCEPT !.poll = "idle",
                            !.lateAdd = @ \/ (success /\ boot.pc = "stopped")]
    /\ StartupOnly

(* stop: running = false and the two timers are cleared *)
Stop ==
    /\ boot.pc = "started"
    /\ boot' = [boot EXCEPT !.pc = "stopped",
                            !.running = FALSE,
                            !.heartbeatTimer = FALSE,
                            !.taskCheckTimer = FALSE]
    /\ StartupOnly

(* the SIGINT and SIGTERM handlers log and call process.exit(0), and main
   calls process.exit(1) when start has thrown: the process and everything
   in it ends; the encoder is a separate process that nothing here signals,
   so it ends only if the signal reached it as well *)
ProcessExit(childSignalled) ==
    /\ Alive
    /\ boot' = [boot EXCEPT !.pc = "exited",
                            !.running = FALSE,
                            !.heartbeatTimer = FALSE,
                            !.taskCheckTimer = FALSE,
                            !.looping = FALSE,
                            !.inflight = {},
                            !.poll = "idle",
                            !.encoder = IF @ = "running" /\ childSignalled THEN "killed" ELSE @]
    /\ StartupOnly

StartupNext ==
    \/ \E ok \in BOOLEAN : StartMkdir(ok)
    \/ \E ok \in BOOLEAN : StartFetchMinio(ok)
    \/ \E p \in ProbeOutcomes : RegisterProbe(p)
    \/ \E answer \in {"runner", "noRunner", "error"} : RegisterOnline(answer)
    \/ StartAfterRegister
    \/ \E p \in ProbeOutcomes, ok \in BOOLEAN : Heartbeat(p, ok)
    \/ \E started \in SUBSET Stages : Dispatch(started)
    \/ LoopExits
    \/ \E stage \in Stages : OperationProgress(stage)
    \/ \E stage \in Stages : OperationEnds(stage)
    \/ PollTick
    \/ \E offered \in BOOLEAN : PollTaskAnswer(offered)
    \/ \E success \in BOOLEAN : PollStartAnswer(success)
    \/ Stop
    \/ \E childSignalled \in BOOLEAN : ProcessExit(childSignalled)

StartupSpec == Init /\ [][StartupNext]_vars

(***************************************************************************)
(* DownloadSpec: the chunked DownloadManager (utils/download-manager) and  *)
(* the single-stream Downloader (task/downloader) run by DownloadingState. *)
(* Sizes are in bytes.  The source is a server that holds total bytes and  *)
(* may break any response part-way.                                        *)
(***************************************************************************)
DownloadOnly ==
    UNCHANGED <<taskQueue, tasks, taskStates, disk, http, procEmitted, terminal, loop, poll,
                fetched, arrival, server, boot, up, call, enc, run>>

Min(a, b) == IF a < b THEN a ELSE b
Max(a, b) == IF a > b THEN a ELSE b
CeilDiv(a, b) == (a + b - 1) \div b

RECURSIVE SumTo(_, _)
SumTo(s, n) == IF n = 0 THEN 0 ELSE s[n] + SumTo(s, n - 1)
Sum(s) == SumTo(s, Len(s))

\* DownloadManager.CHUNK_SIZE, MAX_CONCURRENT_CHUNKS, the cap on the number
\* of chunks and pRetry's retries
CHUNK_SIZE == 5 * 1024 * 1024
MAX_CONCURRENT_CHUNKS == 8
MAX_CHUNKS == 32
CHUNK_RETRIES == 5

(* initChunks: the number of chunks, the chunk size and the byte range of
   chunk i, i = 0 .. numChunks - 1 *)
numChunksFor(total, numChunks) == Min(Max(CeilDiv(total, CHUNK_SIZE), numChunks), MAX_CHUNKS)
chunkSizeFor(total, numChunks) == CeilDiv(total, numChunksFor(total, numChunks))
chunkStart(total, numChunks, i) == i * chunkSizeFor(total, numChunks)
\* a table whose chunks end on the first byte of the next one
chunkEnd_inclusive(total, numChunks, i) ==
    IF i = numChunksFor(total, numChunks) - 1
    THEN total - 1
    ELSE chunkStart(total, numChunks, i) + chunkSizeFor(total, numChunks)

chunkEnd(total, numChunks, i) ==
    IF i = numChunksFor(total, numChunks) - 1
    THEN total - 1
    ELSE chunkStart(total, numChunks, i) + chunkSizeFor(total, numChunks) - 1

\* the sources whose chunks all hold at least one byte
EveryChunkHoldsBytes(total, numChunks) ==
    \A i \in 0..(numChunksFor(total, numChunks) - 1) :
        chunkStart(total, numChunks, i) <= chunkEnd(total, numChunks, i)

\* Number(((downloadedSize / totalSize) * 100).toFixed(2)), in hundredths of
\* a percent
ProgressOf(downloadedSize, totalSize) ==
    (2 * downloadedSize * 10000 + totalSize) \div (2 * totalSize)

\* the 'data' handler of downloadChunk for the bytes of one attempt:
\* this.downloadedSize grows by them and the progress is passed to onProgress
onData(d, bytes) ==
    IF bytes = 0 THEN d
    ELSE [d EXCEPT !.downloadedSize = @ + bytes,
                   !.emitted = TRUE,
                   !.progress = ProgressOf(d.downloadedSize + bytes, d.total)]

(* initChunks on a destination whose part files have the sizes part: each
   chunk's downloaded is the size of its part file, 0 without one, and the
   new manager's downloadedSize is their sum; it has reported no progress *)
initChunks(d, total, numChunks, part) ==
    [d EXCEPT !.mode = "chunked", !.pc = "chunks", !.total = total,
              !.numChunks = numChunksFor(total, numChunks),
              !.part = part, !.downloaded = part,
              !.tries = [i \in 1..Len(part) |-> 0],
              !.finished = {},
              !.downloadedSize = Sum(part), !.emitted = FALSE, !.progress = 0]

(* new DownloadManager(url, outputPath, onProgress, numChunks).start() on a
   fresh destination, up to the end of initChunks *)
ManagerStart(total, numChunks) ==
    /\ dl.pc = "none"
    /\ EveryChunkHoldsBytes(total, numChunks)
    /\ dl' = initChunks(NewDownload, total, numChunks,
                        [i \in 1..numChunksFor(total, numChunks) |-> 0])
    /\ DownloadOnly

\* start() downloads the chunks in groups of MAX_CONCURRENT_CHUNKS, a group
\* after the one before it has finished
GroupOpen(i) ==
    \A k \in 0..(dl.numChunks - 1) :
        (k \div MAX_CONCURRENT_CHUNKS) < (i \div MAX_CONCURRENT_CHUNKS) => (k + 1) \in dl.finished

\* the bytes the server sends for Range: bytes=first-last; a range that
\* starts after its end is refused (416) and no body comes
RangeBody(first, last) == IF first <= last THEN last - first + 1 ELSE 0

(* one attempt of downloadChunk that reaches the write stream's 'finish':
   the request asks for bytes start + chunk.downloaded .. end, the body is
   appended to the part file (flags 'a'), chunk.downloaded becomes
   chunkDownloaded *)
ChunkAttemptFinishes(i) ==
    LET first == chunkStart(dl.total, dl.numChunks, i) + dl.downloaded[i + 1]
        last == chunkEnd(dl.total, dl.numChunks, i)
        body == RangeBody(first, last)
    IN  /\ dl.pc = "chunks"
        /\ i < dl.numChunks
        /\ (i + 1) \notin dl.finished
        /\ GroupOpen(i)
        /\ first <= last
        /\ dl' = [onData(dl, body) EXCEPT !.part[i + 1] = @ + body,
                                          !.downloaded[i + 1] = @ + body,
                                          !.finished = @ \cup {i + 1}]
        /\ DownloadOnly

(* one attempt of downloadChunk that rejects: the request is refused, or the
   response breaks after kept bytes of the body have reached the part file;
   chunk.downloaded is left as it was, pRetry runs the attempt again until
   the retries are used up, and then start() throws *)
ChunkAttemptFails(i, kept) ==
    LET first == chunkStart(dl.total, dl.numChunks, i) + dl.downloaded[i + 1]
        last == chunkEnd(dl.total, dl.numChunks, i)
        body == RangeBody(first, last)
    IN  /\ dl.pc = "chunks"
        /\ i < dl.numChunks
        /\ (i + 1) \notin dl.finished
        /\ GroupOpen(i)
        /\ kept <= body
        /\ dl' = [onData(dl, kept) EXCEPT
                      !.part[i + 1] = @ + kept,
                      !.tries[i + 1] = @ + 1,
                      !.pc = IF dl.tries[i + 1] >= CHUNK_RETRIES THEN "failed" ELSE @]
        /\ DownloadOnly

(* mergeChunks and the return of start(): 'await readStream.pipe(writeStream)'
   awaits the stream pipe() returns, which is no promise, so every part is
   piped into the one output stream without waiting for the pipe to end and
   is removed right after.  When start() returns the output holds any number
   (size) of the parts' bytes; the pipes of two parts run at the same time,
   so their bytes reach the output in index order or not (inOrder); and the
   parts in early were removed before their last byte had been read *)
MergeChunks(size, inOrder) ==
    /\ dl.pc = "chunks"
    /\ dl.finished = 1..dl.numChunks
    /\ size <= Sum(dl.part)
    /\ inOrder \/ (size >= 2 /\ Cardinality({i \in 1..dl.numChunks : dl.part[i] > 0}) >= 2)
    /\ \E early \in SUBSET {i \in 1..dl.numChunks : dl.part[i] > 0} :
          dl' = [dl EXCEPT !.pc = "merged", !.handed = dl.part, !.merged = size,
                          !.inOrder = inOrder, !.early = early,
                          !.part = [i \in 1..dl.numChunks |-> 0]]
    /\ DownloadOnly

(* a new DownloadManager is started on the same destination after the
   process has died or start() has thrown: initChunks finds the part files *)
ManagerRestart ==
    /\ dl.pc \in {"chunks", "failed"}
    /\ dl.mode = "chunked"
    /\ dl.restarts < MaxRestarts
    /\ dl' = [initChunks(dl, dl.total, dl.numChunks, dl.part) EXCEPT !.restarts = @ + 1]
    /\ DownloadOnly

(* Downloader.download up to the end of axios.head: an unreachable URL
   throws, otherwise totalSize = Number(content-length) || 0, which is 0
   for a missing header and for an empty source *)
StreamHead(total, head) ==
    /\ dl.pc = "none"
    /\ dl' = IF head = "unreachable"
             THEN [NewDownload EXCEPT !.mode = "single", !.pc = "threw", !.total = total]
             ELSE [NewDownload EXCEPT !.mode = "single", !.pc = "get", !.total = total,
                             !.contentLength = IF head = "ok" THEN total ELSE 0]
    /\ DownloadOnly

(* Downloader.download from axios.get to its return: a refused GET throws;
   the body is piped to the file, a stream error ends the writer early; the
   size is compared only when totalSize > 0; the catch removes the file *)
StreamBody(accepted, kept) ==
    /\ dl.pc = "get"
    /\ kept <= dl.total
    /\ dl' = IF ~accepted \/ (dl.contentLength > 0 /\ kept # dl.contentLength)
             THEN [dl EXCEPT !.pc = "threw", !.written = 0]
             ELSE [dl EXCEPT !.pc = "returned", !.written = kept]
    /\ DownloadOnly

(* DownloadingState.process after await downloader.download: a path that
   is returned and exists is stored, downloadComplete is posted and the
   stage ends (the queue moves the task to convert); an exception sets
   FAILED with code DOWNLOAD_ERROR *)
DownloadingStateReturns ==
    /\ dl.pc \in {"threw", "returned"}
    /\ dl.mode = "single"
    /\ dl' = IF dl.pc = "returned"
             THEN [dl EXCEPT !.pc = "done", !.stage = "convert"]
             ELSE [dl EXCEPT !.pc = "done", !.stage = "failed", !.code = "DOWNLOAD_ERROR"]
    /\ DownloadOnly

\* the numChunks a client passes to the DownloadManager constructor
ChunkCounts == {1, 2}

DownloadNext ==
    \/ \E total \in 1..MaxTotal, numChunks \in ChunkCounts : ManagerStart(total, numChunks)
    \/ \E i \in 0..(MAX_CHUNKS - 1) : ChunkAttemptFinishes(i)
    \/ \E i \in 0..(MAX_CHUNKS - 1), kept \in 0..MaxTotal : ChunkAttemptFails(i, kept)
    \/ \E size \in 0..(MaxTotal * (CHUNK_RETRIES + 2) * (MaxRestarts + 1)),
             inOrder \in BOOLEAN :
          MergeChunks(size, inOrder)
    \/ ManagerRestart
    \/ \E total \in 0..MaxTotal, head \in {"ok", "missing", "unreachable"} : StreamHead(total, head)
    \/ \E accepted \in BOOLEAN, kept \in 0..MaxTotal : StreamBody(accepted, kept)
    \/ DownloadingStateReturns

DownloadSpec == Init /\ [][DownloadNext]_vars

(***************************************************************************)
(* PlanSpec: the chunk table initChunks builds, for sources of any size    *)
(* and the chunk counts a caller passes to the constructor (the one caller *)
(* passes none, which is the default of 8).                                *)
(***************************************************************************)
PlanSizes ==
    (1..MaxPlanBytes) \cup {k * CHUNK_SIZE + d : k \in 1..MaxPlanParts, d \in {-1, 0, 1}}

ConfiguredChunks == {1, 8}

\* this.chunks after the loop of initChunks: start and end of every chunk
chunksOf(total, numChunks) ==
    [i \in 1..numChunksFor(total, numChunks) |->
        [start |-> chunkStart(total, numChunks, i - 1),
         end |-> chunkEnd(total, numChunks, i - 1)]]

(* initChunks on a source of total bytes, by a manager constructed with
   numChunks *)
PlanChunks(total, numChunks) ==
    /\ dl.pc = "none"
    /\ dl' = [pc |-> "planned", total |-> total, configured |-> numChunks,
              chunks |-> chunksOf(total, numChunks)]
    /\ DownloadOnly

PlanNext == \E total \in PlanSizes, numChunks \in ConfiguredChunks : PlanChunks(total, numChunks)

PlanSpec == Init /\ [][PlanNext]_vars

(***************************************************************************)
(* TranscodeSpec: the bitrate each transcoder solves from the probed       *)
(* duration.  Durations are whole seconds; sizes are in kilobits and rates *)
(* in kbit/s, the unit in which Converter hands the rate to the encoder    *)
(* (Math.floor(videoBitrate / 1000)), so that every product fits.          *)
(***************************************************************************)
TranscodeOnly ==
    UNCHANGED <<taskQueue, tasks, taskStates, disk, http, procEmitted, terminal, loop, poll,
                fetched, arrival, server, boot, dl, up, call, run>>

\* what ffprobe answers: an error, or a format with or without a duration
Durations ==
    {k * 3600 : k \in 0..MaxHours} \cup {17966, 17967, 104109, 104110, 326417, 326418}
Probes ==
    {[err |-> TRUE, has |-> FALSE, duration |-> 0]}
        \cup {[err |-> FALSE, has |-> FALSE, duration |-> 0]}
        \cup {[err |-> FALSE, has |-> TRUE, duration |-> d] : d \in Durations}

\* Converter.convert: maxSize = 3_800_000_000 bytes (in kbit), audioBitrate,
\* the default videoBitrate and the lowest one, in kbit/s
CONVERTER_MAX_KBIT == 30400000
AUDIO_KBPS == 192
DEFAULT_VIDEO_KBPS == 1500
MIN_VIDEO_KBPS == 100

\* the rate Converter.convert gives to .videoBitrate() for a duration > 0:
\* estimatedSize = duration * totalBitrate / 8 is compared with maxSize, and
\* beyond it videoBitrate = Math.max(100 * 1000, maxSize * 8 / duration - audioBitrate)
converterVideoKbps(duration) ==
    IF duration * (DEFAULT_VIDEO_KBPS + AUDIO_KBPS) > CONVERTER_MAX_KBIT
    THEN Max(MIN_VIDEO_KBPS, (CONVERTER_MAX_KBIT \div duration) - AUDIO_KBPS)
    ELSE DEFAULT_VIDEO_KBPS

(* Converter.convert up to the encoder's start: getVideoInfo rejects on an
   ffprobe error and on a falsy duration *)
ConverterConvert(probe) ==
    /\ enc.pc = "none"
    /\ enc' = IF probe.err \/ ~probe.has \/ probe.duration = 0
              THEN [pc |-> "failed", impl |-> "Converter", probe |-> probe, kbps |-> 0]
              ELSE [pc |-> "solved", impl |-> "Converter", probe |-> probe,
                    kbps |-> converterVideoKbps(probe.duration)]
    /\ TranscodeOnly

\* TranscodeManager's default options: maxFileSize = 3.8 * 1024^3 bytes (in
\* kbit, rounded down) and maxBitrate (in kbit/s)
MANAGER_MAX_KBIT == 32641751
MANAGER_MAX_KBPS == 1500

\* getVideoDuration resolves metadata.format.duration || 0
getVideoDuration(probe) == IF probe.has THEN probe.duration ELSE 0

\* calculateBitrate: Math.min(Math.floor(maxFileSize * 8 / duration), maxBitrate);
\* for a duration of 0 the quotient is Infinity and the minimum is maxBitrate
calculateBitrate(duration) ==
    IF duration = 0 THEN MANAGER_MAX_KBPS
    ELSE Min(MANAGER_MAX_KBIT \div duration, MANAGER_MAX_KBPS)

(* TranscodeManager.start up to the encoder's start: only an ffprobe error
   rejects *)
TranscodeManagerStart(probe) ==
    /\ enc.pc = "none"
    /\ enc' = IF probe.err
              THEN [pc |-> "failed", impl |-> "TranscodeManager", probe |-> probe, kbps |-> 0]
              ELSE [pc |-> "solved", impl |-> "TranscodeManager", probe |-> probe,
                    kbps |-> calculateBitrate(getVideoDuration(probe))]
    /\ TranscodeOnly

TranscodeNext ==
    \/ \E probe \in Probes : ConverterConvert(probe)
    \/ \E probe \in Probes : TranscodeManagerStart(probe)

TranscodeSpec == Init /\ [][TranscodeNext]_vars

(***************************************************************************)
(* ProcessSpec: TaskProcessor.process(task) step by step.  emit() calls    *)
(* the listeners synchronously, so a listener that throws makes emit()     *)
(* throw at the place of the call, after the event has been delivered to   *)
(* the listeners before it.                                                *)
(***************************************************************************)
ProcessOnly ==
    UNCHANGED <<taskQueue, tasks, taskStates, disk, http, procEmitted, terminal, loop, poll,
                fetched, arrival, server, boot, dl, up, call, enc>>

ProcessorStages == {"download", "convert", "upload"}

(* process(task) up to 'await initialState.process(task, context)': the
   initial state is chosen by the stage and 'stateChange' is emitted; a throw
   there is caught by the outer catch *)
Process(stage, id, listenerThrows) ==
    /\ run.pc \in {"idle", "returned", "raised"}
    /\ run.calls < MaxCalls
    /\ run' = [pc |-> IF listenerThrows THEN "outerCatch" ELSE "awaiting",
               calls |-> run.calls + 1, stage |-> stage, id |-> id,
               status |-> "WAITING", events |-> <<>>,
               threw |-> IF listenerThrows THEN {"stateChange"} ELSE {}]
    /\ ProcessOnly

(* 'await initialState.process(task, context)' settles: the state returned,
   or it set the task FAILED and threw *)
StateSettles(ok) ==
    /\ run.pc = "awaiting"
    /\ run' = IF ok
              THEN [run EXCEPT !.pc = "emitComplete"]
              ELSE [run EXCEPT !.pc = "innerCatch", !.status = "FAILED"]
    /\ ProcessOnly

(* this.emit('complete', task), inside the inner try *)
EmitComplete(listenerThrows) ==
    /\ run.pc = "emitComplete"
    /\ run' = [run EXCEPT !.events = Append(@, "complete"),
                          !.threw = IF listenerThrows THEN @ \cup {"complete"} ELSE @,
                          !.pc = IF listenerThrows THEN "innerCatch" ELSE "returned"]
    /\ ProcessOnly

(* the inner catch: this.emit('error', { task, error }) *)
InnerCatch(listenerThrows) ==
    /\ run.pc = "innerCatch"
    /\ run' = [run EXCEPT !.events = Append(@, "error"),
                          !.threw = IF listenerThrows THEN @ \cup {"error"} ELSE @,
                          !.pc = IF listenerThrows THEN "outerCatch" ELSE "returned"]
    /\ ProcessOnly

(* the outer catch: the task is marked FAILED with UNEXPECTED_ERROR and
   'error' is emitted; a throw there rejects the promise process() returned *)
OuterCatch(listenerThrows) ==
    /\ run.pc = "outerCatch"
    /\ run' = [run EXCEPT !.status = "FAILED",
                          !.events = Append(@, "error"),
                          !.threw = IF listenerThrows THEN @ \cup {"error"} ELSE @,
                          !.pc = IF listenerThrows THEN "raised" ELSE "returned"]
    /\ ProcessOnly

ProcessNext ==
    \/ \E stage \in ProcessorStages, id \in OfferedIds, listenerThrows \in BOOLEAN :
          Process(stage, id, listenerThrows)
    \/ \E ok \in BOOLEAN : StateSettles(ok)
    \/ \E listenerThrows \in BOOLEAN : EmitComplete(listenerThrows)
    \/ \E listenerThrows \in BOOLEAN : InnerCatch(listenerThrows)
    \/ \E listenerThrows \in BOOLEAN : OuterCatch(listenerThrows)

ProcessSpec == Init /\ [][ProcessNext]_vars

(***************************************************************************)
(* UploadSpec: Uploader.upload (task/uploader).  Sizes are in bytes.  The  *)
(* object store holds the final object <taskId>.<format> and its part      *)
(* siblings <taskId>.<format>.part1, .part2, ...; any call to it may fail. *)
(***************************************************************************)
UploadOnly ==
    UNCHANGED <<taskQueue, tasks, taskStates, disk, http, procEmitted, terminal, loop, poll,
                fetched, arrival, server, boot, dl, call, enc, run>>

\* the size above which upload writes parts, and the size of a part
MULTIPART_THRESHOLD == 10 * 1024 * 1024
PART_SIZE == 5 * 1024 * 1024

\* the sizes of the local files tried: empty, one byte, and the sizes on
\* and next to every multiple of PART_SIZE
UploadSizes == {0, 1} \cup {k * PART_SIZE + d : k \in 1..MaxParts, d \in {-1, 0, 1}}

\* a threshold that sends a file of exactly 10 MiB to the part path
usesParts_inclusive(totalSize) == totalSize >= MULTIPART_THRESHOLD

\* if (totalSize > 10 * 1024 * 1024)
usesParts(totalSize) == totalSize > MULTIPART_THRESHOLD

\* const partCount = Math.ceil(totalSize / PART_SIZE)
partCountFor(totalSize) == CeilDiv(totalSize, PART_SIZE)

\* the catch of upload: the error is logged and thrown again, the store is
\* left as it is
UploadRaises(u, error) == [u EXCEPT !.pc = "raised", !.error = error]

(* upload up to the choice of the path: a missing file and an empty file
   throw before anything is written *)
UploadBegin(exists, size) ==
    /\ up.pc = "none"
    /\ LET u == [NewUpload EXCEPT !.exists = exists, !.size = IF exists THEN size ELSE 0] IN
       up' = IF ~exists THEN UploadRaises(u, "missing")
             ELSE IF size = 0 THEN UploadRaises(u, "empty")
             ELSE IF usesParts(size)
                  THEN [u EXCEPT !.pc = "parts", !.partCount = partCountFor(size)]
                  ELSE [u EXCEPT !.pc = "single"]
    /\ UploadOnly

(* one turn of the part loop: s3Client.write(<object>.part<i+1>, chunk) *)
WritePart(ok) ==
    /\ up.pc = "parts"
    /\ up.next < up.partCount
    /\ up' = IF ok
             THEN [up EXCEPT !.parts = @ \cup {up.next + 1}, !.next = @ + 1,
                             !.writes = @ + 1, !.partWrites = @ + 1]
             ELSE UploadRaises(up, "partWrite")
    /\ UploadOnly

(* s3Client.write(objectName, bunFile): the whole file in one write, after
   the part loop on the part path, alone on the other *)
WriteFinal(ok) ==
    /\ \/ up.pc = "single"
       \/ up.pc = "parts" /\ up.next = up.partCount
    /\ up' = IF ok
             THEN [up EXCEPT !.final = TRUE, !.writes = @ + 1,
                             !.pc = IF up.pc = "parts" THEN "cleanup" ELSE "verify"]
             ELSE UploadRaises(up, "finalWrite")
    /\ UploadOnly

(* one turn of the loop that deletes the part objects, in index order *)
DeletePart(ok) ==
    /\ up.pc = "cleanup"
    /\ up.parts # {}
    /\ LET i == CHOOSE k \in up.parts : \A j \in up.parts : k <= j IN
       up' = IF ok THEN [up EXCEPT !.parts = @ \ {i}] ELSE UploadRaises(up, "partDelete")
    /\ UploadOnly

(* s3Client.stat(objectName) and the comparison of its size with the local
   size *)
VerifySize(answer) ==
    /\ \/ up.pc = "verify"
       \/ up.pc = "cleanup" /\ up.parts = {}
    /\ up' = IF answer = "same" THEN [up EXCEPT !.pc = "presign"]
             ELSE UploadRaises(up, IF answer = "differs" THEN "sizeMismatch" ELSE "stat")
    /\ UploadOnly

(* s3File.presign and the return of uploadInfo *)
Presign(ok) ==
    /\ up.pc = "presign"
    /\ up' = IF ok THEN [up EXCEPT !.pc = "done"] ELSE UploadRaises(up, "presign")
    /\ UploadOnly

UploadNext ==
    \/ \E exists \in BOOLEAN, size \in UploadSizes : UploadBegin(exists, size)
    \/ \E ok \in BOOLEAN : WritePart(ok)
    \/ \E ok \in BOOLEAN : WriteFinal(ok)
    \/ \E ok \in BOOLEAN : DeletePart(ok)
    \/ \E answer \in {"same", "differs", "error"} : VerifySize(answer)
    \/ \E ok \in BOOLEAN : Presign(ok)

UploadSpec == Init /\ [][UploadNext]_vars

(***************************************************************************)
(* RetrySpec: the HTTP client's retry wrapper withRetry (utils/api.ts),    *)
(* through which api.request sends every call.  A call is identified by    *)
(* the last segment of its path, /runner/<taskId>/<segment> or             *)
(* /runner/<segment>.                                                      *)
(***************************************************************************)
RetryOnly ==
    UNCHANGED <<taskQueue, tasks, taskStates, disk, http, procEmitted, terminal, loop, poll,
                fetched, arrival, server, boot, dl, up, enc, run>>

MAX_RETRIES == 3
INITIAL_RETRY_DELAY == 1000
MAX_RETRY_DELAY == 30000

\* the calls the runner makes
Paths ==
    {"download", "convert", "upload", "downloadComplete", "convertComplete", "complete",
     "fail", "start", "getTask", "online", "heartbeat", "minio"}

\* url.includes(fragment): it compares characters, so '/downloadComplete'
\* includes '/download' and does not include '/complete'
includes(path, fragment) ==
    CASE fragment = "/download" -> path \in {"download", "downloadComplete"}
      [] fragment = "/convert" -> path \in {"convert", "convertComplete"}
      [] fragment = "/upload" -> path = "upload"
      [] fragment = "/downloadComplete" -> path = "downloadComplete"
      [] fragment = "/convertComplete" -> path = "convertComplete"
      [] fragment = "/complete" -> path = "complete"
      [] fragment = "/fail" -> path = "fail"
      [] OTHER -> FALSE

\* a classifier that sends every call to the retry loop
isProgressApi_never(url) == FALSE

\* isProgressApi
isProgressApi(url) ==
    includes(url, "/download") \/ includes(url, "/convert") \/ includes(url, "/upload")

\* isStateApi: it only chooses the level of the retry log line
isStateApi(url) ==
    \/ includes(url, "/downloadComplete") \/ includes(url, "/convertComplete")
    \/ includes(url, "/complete") \/ includes(url, "/fail")

\* the ways a call fails: an AxiosError without a response (status 0), an
\* AxiosError with the response's status, or another exception
Failures ==
    {[axios |-> TRUE, status |-> st] : st \in {0, 400, 403, 404, 500, 503}}
        \cup {[axios |-> FALSE, status |-> 0]}

\* a test that retries every failure but a 404
isRetryableError_lenient(error) ==
    IF error.status = 0 THEN TRUE
    ELSE IF error.status = 404 THEN FALSE
    ELSE error.status >= 400

\* isRetryableError
isRetryableError(error) ==
    IF error.status = 0 THEN TRUE
    ELSE IF error.status = 404 THEN FALSE
    ELSE error.status >= 500

RECURSIVE Pow2(_)
Pow2(n) == IF n = 0 THEN 1 ELSE 2 * Pow2(n - 1)

\* Math.min(INITIAL_RETRY_DELAY * Math.pow(2, retries - 1), MAX_RETRY_DELAY)
RetryDelay(retries) == Min(INITIAL_RETRY_DELAY * Pow2(retries - 1), MAX_RETRY_DELAY)

(* api.request(config): withRetry is entered with the call and its url *)
Request(url) ==
    /\ call.pc = "none"
    /\ call' = [NewCall EXCEPT !.pc = "attempt", !.url = url]
    /\ RetryOnly

(* await apiCall() resolves, in either branch: the response is returned *)
AttemptSucceeds ==
    /\ call.pc = "attempt"
    /\ call' = [call EXCEPT !.pc = "done", !.attempts = @ + 1, !.outcome = "returned"]
    /\ RetryOnly

(* await apiCall() rejects.  Progress branch: warn and return undefined.
   Retry loop: an AxiosError that is not retryable is thrown; otherwise
   retries is incremented and, while it is below MAX_RETRIES, the loop
   sleeps and tries again, else the error is thrown *)
AttemptFails(error) ==
    /\ call.pc = "attempt"
    /\ LET c == [call EXCEPT !.attempts = @ + 1, !.errors = Append(@, error)] IN
       call' = IF isProgressApi(call.url)
               THEN [c EXCEPT !.pc = "done", !.outcome = "swallowed"]
               ELSE IF error.axios /\ ~isRetryableError(error)
                    THEN [c EXCEPT !.pc = "done", !.outcome = "thrown"]
                    ELSE IF call.retries + 1 < MAX_RETRIES
                         THEN [c EXCEPT !.pc = "sleep", !.retries = @ + 1]
                         ELSE [c EXCEPT !.pc = "done", !.retries = @ + 1,
                                        !.outcome = "thrown"]
    /\ RetryOnly

(* await sleep(delay), then the next turn of the loop *)
Sleep ==
    /\ call.pc = "sleep"
    /\ call' = [call EXCEPT !.pc = "attempt", !.slept = Append(@, RetryDelay(call.retries))]
    /\ RetryOnly

RetryNext ==
    \/ \E url \in Paths : Request(url)
    \/ AttemptSucceeds
    \/ \E error \in Failures : AttemptFails(error)
    \/ Sleep

RetrySpec == Init /\ [][RetryNext]_vars

(***************************************************************************)
(* Properties.                                                             *)
(***************************************************************************)
CountIn(seq, id) == Cardinality({i \in 1..Len(seq) : seq[i] = id})

\* how many times an id is held by the queue, over all waiting lists and in-flight sets
Occurrences(q, id) ==
    CountIn(q.downloadQueue, id) + CountIn(q.convertQueue, id) + CountIn(q.uploadQueue, id)
    + (IF id \in q.processingDownload THEN 1 ELSE 0)
    + (IF id \in q.processingConvert THEN 1 ELSE 0)
    + (IF id \in q.processingUpload THEN 1 ELSE 0)

\* the step makes the queue emit the given event
QueueEmits(type, id, stage) ==
    /\ taskQueue'.emitted # taskQueue.emitted
    /\ taskQueue'.emitted = [type |-> type, id |-> id, stage |-> stage]

\* the step makes a stage processor emit the given event
ProcessorEmits(stage, type, id) ==
    /\ procEmitted' # procEmitted
    /\ procEmitted' = [stage |-> stage, type |-> type, id |-> id]

\* C1: after any sequence of TaskQueue operations every task id is held at
\* most once over the three waiting lists and the three in-flight sets.
C1_AtMostOneStage == \A id \in TaskIds : Occurrences(taskQueue, id) <= 1

\* one task waits for convert while another is in flight in download
C1_Witness ==
    \E a, b \in TaskIds :
        /\ a # b
        /\ a \in Range(taskQueue.convertQueue)
        /\ b \in taskQueue.processingDownload

\* C2: in every reachable state each stage's in-flight set is no larger than
\* the stage's cap; with a cap of 1 at most one task is in flight in the stage.
C2_InFlightWithinCap ==
    /\ Cardinality(taskQueue.processingDownload) <= taskQueue.maxDownloadConcurrent
    /\ Cardinality(taskQueue.processingConvert) <= taskQueue.maxConvertConcurrent
    /\ Cardinality(taskQueue.processingUpload) <= taskQueue.maxUploadConcurrent

\* the download stage has cap 1, is full, and another task waits for it
C2_Witness ==
    /\ taskQueue.maxDownloadConcurrent = 1
    /\ Cardinality(taskQueue.processingDownload) = 1
    /\ Len(taskQueue.downloadQueue) >= 1

\* C3: when an upload succeeds, POST /runner/<id>/complete has been sent by
\* the time the upload processor emits 'complete' for the task.
C3_CompletePostedBeforeEmit ==
    \A id \in TaskIds :
        procEmitted = [stage |-> "upload", type |-> "complete", id |-> id]
            => <<"complete", id>> \in http

\* C4: whenever a stage processor emits 'error' for a task, POST
\* /runner/<id>/fail is sent and the task's carry entry is removed.
C4_ErrorRunsFailed ==
    [][\A id \in TaskIds, stage \in Stages :
          ProcessorEmits(stage, "error", id)
              => /\ <<"fail", id>> \in http'
                 /\ ~taskStates'[id].present]_vars

\* C5: a task that is terminal (the queue emitted 'completed' or 'failed' for
\* it and it has not been bound again) has no carry entry and no scratch
\* file: neither its directory nor its converted file exists.
C5_TerminalLeavesNothing ==
    \A id \in terminal :
        ~isTaskInAnyQueue(taskQueue, id)
            => /\ ~taskStates[id].present
               /\ disk[id] = NoFiles

\* C6: a task whose status reaches FINISHED has taken exactly the statuses
\* WAITING, DOWNLOADING, CONVERTING, UPLOADING, FINISHED, in that order.
C6_FinishedStatusOrder ==
    \A id \in TaskIds :
        "FINISHED" \in Range(tasks[id].statusLog)
            => tasks[id].statusLog = <<"WAITING", "DOWNLOADING", "CONVERTING", "UPLOADING", "FINISHED">>

\* a task has finished and the queue has emitted 'completed' for it
C6_Witness ==
    \E id \in TaskIds :
        /\ tasks[id].status = "FINISHED"
        /\ taskQueue.emitted = [type |-> "completed", id |-> id, stage |-> "upload"]

\* C7: whenever the queue emits 'failed' for a task, the task has status
\* FAILED and an error with one of the enumerated codes and a non-empty
\* message, also when the runner raised the failure itself.
C7_FailedHasError ==
    [][\A id \in TaskIds, stage \in Stages :
          QueueEmits("failed", id, stage)
              => /\ tasks'[id].status = "FAILED"
                 /\ tasks'[id].error.code \in ErrorCodes
                 /\ tasks'[id].error.message # ""]_vars

\* C8: an id that has been terminal is never again in a waiting list or an
\* in-flight set.
C8_TerminalNeverRequeued ==
    \A id \in terminal : ~isTaskInAnyQueue(taskQueue, id)

\* C9: when a task enters the convert waiting list its carry entry has
\* downloadedFilePath, and when it enters the upload waiting list its carry
\* entry has convertedFilePath.
C9_CarryAtStageEntry ==
    [][\A id \in TaskIds :
          /\ (id \notin Range(taskQueue.convertQueue) /\ id \in Range(taskQueue'.convertQueue))
                => (taskStates'[id].present /\ taskStates'[id].downloadedFilePath)
          /\ (id \notin Range(taskQueue.uploadQueue) /\ id \in Range(taskQueue'.uploadQueue))
                => (taskStates'[id].present /\ taskStates'[id].convertedFilePath)]_vars

\* a task waits for upload with its converted path in the carry store while
\* another waits for convert with its downloaded path
C9_Witness ==
    \E a, b \in TaskIds :
        /\ a \in Range(taskQueue.uploadQueue)
        /\ taskStates[a].convertedFilePath
        /\ b \in Range(taskQueue.convertQueue)
        /\ taskStates[b].downloadedFilePath

\* C10: completeDownload(t) for t in download in-flight removes t from the
\* in-flight set and appends it to the convert waiting list in one step, so
\* that t is held exactly once, at the tail; completeConvert(t) does the same
\* from convert in-flight to the upload waiting list.
C10_CompleteMovesOnce ==
    \A id \in TaskIds :
       /\ id \in taskQueue.processingDownload
             => LET q == completeDownload(taskQueue, id)
                IN /\ id \notin q.processingDownload
                   /\ q.convertQueue = Append(taskQueue.convertQueue, id)
                   /\ Occurrences(q, id) = 1
       /\ id \in taskQueue.processingConvert
             => LET q == completeConvert(taskQueue, id)
                IN /\ id \notin q.processingConvert
                   /\ q.uploadQueue = Append(taskQueue.uploadQueue, id)
                   /\ Occurrences(q, id) = 1

\* completeDownload and then completeConvert have moved two tasks: both wait
\* for upload, the second behind the first, and convert is empty again
C10_Witness ==
    /\ Len(taskQueue.uploadQueue) >= 2
    /\ taskQueue.processingConvert = {}
    /\ taskQueue.convertQueue = <<>>

\* what a next* call must do: waiting and inflight before, result r (0 for
\* empty), waiting2 and inflight2 after
NextContract(waiting, inflight, cap, r, waiting2, inflight2) ==
    /\ (r # 0) <=> (Len(waiting) > 0 /\ Cardinality(inflight) < cap)
    /\ r = 0 => (waiting2 = waiting /\ inflight2 = inflight)
    /\ r # 0 => /\ r \in Range(waiting)
                /\ r \notin inflight
                /\ Len(waiting2) = Len(waiting) - 1
                /\ Range(waiting2) = Range(waiting) \ {r}
                /\ inflight2 = inflight \cup {r}

\* the queue without the fields of one stage and without the last event
OtherThan(q, stage) ==
    [q EXCEPT !.downloadQueue = IF stage = "download" THEN <<>> ELSE @,
              !.processingDownload = IF stage = "download" THEN {} ELSE @,
              !.convertQueue = IF stage = "convert" THEN <<>> ELSE @,
              !.processingConvert = IF stage = "convert" THEN {} ELSE @,
              !.uploadQueue = IF stage = "upload" THEN <<>> ELSE @,
              !.processingUpload = IF stage = "upload" THEN {} ELSE @,
              !.emitted = NoEvent]

\* C11: in every reachable queue state, nextDownload / nextConvert /
\* nextUpload returns a task iff the stage's waiting list is non-empty and its
\* in-flight count is below the cap; it then moves exactly that task from the
\* waiting list to the in-flight set and touches no other stage; otherwise it
\* returns empty and leaves the queue as it is.  add(t) on an empty queue
\* followed by nextDownload returns t.
C11_NextMovesOneOrNothing ==
    /\ LET q == nextDownload(taskQueue, tasks)
       IN /\ NextContract(taskQueue.downloadQueue, taskQueue.processingDownload,
                          taskQueue.maxDownloadConcurrent, nextDownloadResult(taskQueue, tasks),
                          q.downloadQueue, q.processingDownload)
          /\ OtherThan(q, "download") = OtherThan(taskQueue, "download")
          /\ nextDownloadResult(taskQueue, tasks) = 0 => q = taskQueue
    /\ LET q == nextConvert(taskQueue, tasks)
       IN /\ NextContract(taskQueue.convertQueue, taskQueue.processingConvert,
                          taskQueue.maxConvertConcurrent, nextConvertResult(taskQueue, tasks),
                          q.convertQueue, q.processingConvert)
          /\ OtherThan(q, "convert") = OtherThan(taskQueue, "convert")
          /\ nextConvertResult(taskQueue, tasks) = 0 => q = taskQueue
    /\ LET q == nextUpload(taskQueue, tasks)
       IN /\ NextContract(taskQueue.uploadQueue, taskQueue.processingUpload,
                          taskQueue.maxUploadConcurrent, nextUploadResult(taskQueue, tasks),
                          q.uploadQueue, q.processingUpload)
          /\ OtherThan(q, "upload") = OtherThan(taskQueue, "upload")
          /\ nextUploadResult(taskQueue, tasks) = 0 => q = taskQueue
    /\ \A id \in OfferedIds :
          (\A other \in TaskIds : Occurrences(taskQueue, other) = 0)
              => nextDownloadResult(add(taskQueue, id),
                                    [tasks EXCEPT ![id] = NewTask(FALSE, 0)]) = id

\* the convert stage is full while a task waits for it (nextConvert has
\* returned a task and now returns empty), and upload is empty
C11_Witness ==
    /\ Cardinality(taskQueue.processingConvert) = taskQueue.maxConvertConcurrent
    /\ Len(taskQueue.convertQueue) >= 1
    /\ Len(taskQueue.uploadQueue) = 0

\* C12: in every reachable queue state, add(t) appends t to the download
\* waiting list, and changes nothing else, iff t's id is held nowhere; when
\* the id is held anywhere add changes nothing; so add(t); add(t) leaves the
\* queue as a single add(t) does.
C12_AddIffHeldNowhere ==
    \A id \in OfferedIds :
        LET q == add(taskQueue, id)
        IN /\ Occurrences(taskQueue, id) = 0
                 => /\ q.downloadQueue = Append(taskQueue.downloadQueue, id)
                    /\ OtherThan([q EXCEPT !.downloadQueue = taskQueue.downloadQueue], "none")
                           = OtherThan(taskQueue, "none")
           /\ Occurrences(taskQueue, id) > 0 => q = taskQueue
           /\ add(q, id) = q

\* one id is in flight in upload (held, but in no waiting list) while
\* another id is held nowhere
C12_Witness ==
    \E a, b \in OfferedIds :
        /\ a \in taskQueue.processingUpload
        /\ Occurrences(taskQueue, b) = 0

\* position of an id in a sequence, 0 when absent
Pos(seq, id) == IF id \in Range(seq) THEN CHOOSE i \in 1..Len(seq) : seq[i] = id ELSE 0

\* r is, among the waiting ids, one of highest priority and, among those of
\* its priority, the one that entered the waiting list first
FirstOfHighest(r, waiting, entered, ts) ==
    \A x \in Range(waiting) :
        /\ PriorityOf(ts[r]) >= PriorityOf(ts[x])
        /\ PriorityOf(ts[r]) = PriorityOf(ts[x]) => Pos(entered, r) <= Pos(entered, x)

\* C13: in every reachable queue state, the task a next* call returns has
\* the highest priority of the stage's waiting tasks (no priority counting as
\* 0) and, among the waiting tasks of that priority, entered the stage's
\* waiting list first.
C13_HighestPriorityFirst ==
    /\ nextDownloadResult(taskQueue, tasks) # 0
          => FirstOfHighest(nextDownloadResult(taskQueue, tasks), taskQueue.downloadQueue,
                            arrival.download, tasks)
    /\ nextConvertResult(taskQueue, tasks) # 0
          => FirstOfHighest(nextConvertResult(taskQueue, tasks), taskQueue.convertQueue,
                            arrival.convert, tasks)
    /\ nextUploadResult(taskQueue, tasks) # 0
          => FirstOfHighest(nextUploadResult(taskQueue, tasks), taskQueue.uploadQueue,
                            arrival.upload, tasks)

\* a task of higher priority waits for download behind one of lower priority
\* that entered first, and nextDownload would return the later one
C13_Witness ==
    /\ Len(taskQueue.downloadQueue) >= 2
    /\ nextDownloadResult(taskQueue, tasks) # 0
    /\ nextDownloadResult(taskQueue, tasks) # arrival.download[1]
    /\ PriorityOf(tasks[nextDownloadResult(taskQueue, tasks)]) > PriorityOf(tasks[arrival.download[1]])

\* the ids that newly enter a set in this step
Entering(before, after) == after \ before

\* C14: a task the runner starts in a stage carries the priority the control
\* plane gave it, and no task waiting in that stage has a higher
\* control-plane priority.
C14_RemotePriorityGoverns ==
    [][/\ \A id \in Entering(taskQueue.processingDownload, taskQueue'.processingDownload) :
             /\ PriorityOf(tasks[id]) = RemotePriority(id)
             /\ \A x \in Range(taskQueue.downloadQueue) : RemotePriority(x) <= RemotePriority(id)
       /\ \A id \in Entering(taskQueue.processingConvert, taskQueue'.processingConvert) :
             /\ PriorityOf(tasks[id]) = RemotePriority(id)
             /\ \A x \in Range(taskQueue.convertQueue) : RemotePriority(x) <= RemotePriority(id)
       /\ \A id \in Entering(taskQueue.processingUpload, taskQueue'.processingUpload) :
             /\ PriorityOf(tasks[id]) = RemotePriority(id)
             /\ \A x \in Range(taskQueue.uploadQueue) : RemotePriority(x) <= RemotePriority(id)]_vars

\* C15: in the scenario (caps 1/1/1, tasks 1, 2, 3 bound in that order, equal
\* priority, every stage succeeding) at most one task is in flight in each
\* stage; task 2 enters download only when task 1 has left the download
\* stage; when task 1 leaves download while task 2 waits, no stage call is
\* pending, so the next dispatch step is free to run, and that step starts
\* task 2; and a task is complete only when every earlier task is.
C15_ScenarioOrder ==
    [][/\ Cardinality(taskQueue'.processingDownload) <= 1
       /\ Cardinality(taskQueue'.processingConvert) <= 1
       /\ Cardinality(taskQueue'.processingUpload) <= 1
       /\ 2 \in Entering(taskQueue.processingDownload, taskQueue'.processingDownload)
             => /\ tasks[1].status # "none"
                /\ 1 \notin Range(taskQueue.downloadQueue)
                /\ 1 \notin taskQueue.processingDownload
                /\ 1 \notin taskQueue'.processingDownload
       /\ (1 \in Entering(taskQueue'.processingDownload, taskQueue.processingDownload)
             /\ 2 \in Range(taskQueue'.downloadQueue))
             => /\ loop'.pc = "await"
                /\ loop'.download = IdleSlot
                /\ loop'.convert = IdleSlot
                /\ loop'.upload = IdleSlot
       /\ (loop.pc = "sleep" /\ loop'.pc # "sleep"
             /\ tasks[1].downloadedFilePath /\ 2 \in Range(taskQueue.downloadQueue))
             => 2 \in taskQueue'.processingDownload
       /\ \A a, b \in TaskIds : (a < b /\ b \in terminal') => a \in terminal']_vars

\* every task of the scenario has finished, and the queue is empty
C15_Witness ==
    /\ \A id \in 1..ScenarioTasks : id \in terminal /\ tasks[id].status = "FINISHED"
    /\ \A id \in TaskIds : Occurrences(taskQueue, id) = 0

\* how many of the three stage calls of the dispatch loop are driving the id
Driving(l, id) ==
    (IF l.download.id = id THEN 1 ELSE 0) + (IF l.convert.id = id THEN 1 ELSE 0)
    + (IF l.upload.id = id THEN 1 ELSE 0)

\* C16: a task enters convert in-flight only from the convert waiting list,
\* out of download, with the path its successful download produced; it
\* enters upload in-flight only from the upload waiting list, out of
\* convert, with the path its successful transcode produced; and it is never
\* in flight in, or driven by, two stages at once.
C16_StagesInSequence ==
    [][\A id \in TaskIds :
          /\ id \in Entering(taskQueue.processingConvert, taskQueue'.processingConvert)
                => /\ id \in Range(taskQueue.convertQueue)
                   /\ tasks[id].status = "DOWNLOADING"
                   /\ tasks[id].downloadedFilePath
                   /\ disk[id].downloadedFile
                   /\ id \notin taskQueue.processingDownload
                   /\ loop.download.id # id
          /\ id \in Entering(taskQueue.processingUpload, taskQueue'.processingUpload)
                => /\ id \in Range(taskQueue.uploadQueue)
                   /\ tasks[id].status = "CONVERTING"
                   /\ tasks[id].convertedFilePath
                   /\ id \notin taskQueue.processingConvert
                   /\ loop.convert.id # id
          /\ (IF id \in taskQueue'.processingDownload THEN 1 ELSE 0)
                + (IF id \in taskQueue'.processingConvert THEN 1 ELSE 0)
                + (IF id \in taskQueue'.processingUpload THEN 1 ELSE 0) <= 1
          /\ Driving(loop', id) <= 1]_vars

\* one task is being uploaded while another is being transcoded
C16_Witness ==
    \E a, b \in TaskIds :
        /\ loop.upload = [id |-> a, phase |-> "uploading"]
        /\ tasks[a].status = "UPLOADING"
        /\ loop.convert = [id |-> b, phase |-> "converting"]
        /\ tasks[b].status = "CONVERTING"

\* C17: a step that ends a start call without a bind (the answer was not
\* { success: true }, or the call raised) changes neither the carry store nor
\* the queue nor any task, and leaves the poll ready for its next run.
C17_RefusedStartSkips ==
    [][(poll.pc = "start" /\ poll'.pc # "start" /\ fetched' = fetched)
          => /\ taskStates' = taskStates
             /\ taskQueue' = taskQueue
             /\ tasks' = tasks
             /\ poll' = IdlePoll]_vars

\* a start call was sent and has ended, nothing was ever bound, and the next
\* poll has already sent its request
C17_Witness ==
    /\ \E id \in OfferedIds : <<"start", id>> \in http
    /\ fetched = 0
    /\ poll.pc = "getTask"
    /\ \A id \in TaskIds : ~taskStates[id].present /\ Occurrences(taskQueue, id) = 0

\* C18: no task is started by two runners: two runners never both hold the
\* answer { success: true } of POST /runner/<taskId>/start for the same task
\* (no task of the control plane goes back to WAITING).
C18_OneStartSucceeds ==
    \A r1, r2 \in Runners :
        (/\ r1 # r2
         /\ server.handler[r1].answer = "success"
         /\ server.handler[r2].answer = "success")
            => server.handler[r1].id # server.handler[r2].id

\* C19: the poll sends GET /runner/getTask only when the download in-flight
\* count is below its cap; it sends a start call only for a task returned in
\* status WAITING; and a task enters the queue only from a start call for a
\* WAITING task.
C19_PollOnlyWithCapacity ==
    [][/\ (poll.pc = "idle" /\ poll'.pc = "getTask")
             => Cardinality(taskQueue.processingDownload) < taskQueue.maxDownloadConcurrent
       /\ (poll.pc # "start" /\ poll'.pc = "start")
             => /\ poll.pc = "getTask"
                /\ poll'.status = "WAITING"
       /\ http' # http /\ (\E id \in TaskIds : <<"start", id>> \in http' \ http)
             => poll'.pc = "start"
       /\ \A id \in TaskIds :
             (Occurrences(taskQueue, id) = 0 /\ Occurrences(taskQueue', id) > 0)
                 => /\ poll.pc = "start"
                    /\ poll.id = id
                    /\ poll.status = "WAITING"]_vars

\* a start call is pending for a WAITING task while an earlier task still
\* waits for download and none is in flight there
C19_Witness ==
    /\ poll.pc = "start"
    /\ poll.status = "WAITING"
    /\ Len(taskQueue.downloadQueue) >= 1
    /\ taskQueue.processingDownload = {}

\* C20: a task that waits in a stage with spare capacity never has to wait
\* for the current task of another stage: the dispatch loop is not held by
\* another stage's call while such a task waits.
C20_StagesIndependent ==
    /\ (Len(taskQueue.downloadQueue) > 0 /\ hasCapacity(taskQueue, "download"))
          => ~(loop.pc = "await" /\ (loop.convert # IdleSlot \/ loop.upload # IdleSlot))
    /\ (Len(taskQueue.convertQueue) > 0 /\ hasCapacity(taskQueue, "convert"))
          => ~(loop.pc = "await" /\ (loop.download # IdleSlot \/ loop.upload # IdleSlot))
    /\ (Len(taskQueue.uploadQueue) > 0 /\ hasCapacity(taskQueue, "upload"))
          => ~(loop.pc = "await" /\ (loop.download # IdleSlot \/ loop.convert # IdleSlot))


(***************************************************************************)
(* Startup and shutdown of the runner.                                     *)
(***************************************************************************)
StartOrder == <<"mkdir", "minio", "register", "heartbeat", "poll", "loop">>
IsPrefix(s, t) == Len(s) <= Len(t) /\ \A i \in 1..Len(s) : s[i] = t[i]

\* C21: startup is ordered - scratch root, then the credentials fetch (whose
\* failure never fails start), then registration; the heartbeat timer, the
\* poll timer and the dispatch loop run only once registration has
\* succeeded, and a failed registration fails start with none of them started
C21_StartupOrdered ==
    boot.pc # "new" =>
        /\ IsPrefix(boot.steps, StartOrder)
        /\ boot.cause \in {"none", "mkdir", "probe", "online"}
        /\ (boot.heartbeatTimer \/ boot.taskCheckTimer \/ boot.looping \/ boot.running)
              => boot.machine
        /\ boot.cause \in {"probe", "online"}
              => /\ ~boot.heartbeatTimer /\ ~boot.taskCheckTimer /\ ~boot.looping
                 /\ ~boot.machine
                 /\ boot.steps = <<"mkdir", "minio">>

\* the runner has started although the credentials fetch failed
C21_Witness ==
    /\ boot.pc = "started"
    /\ boot.minio = "missing"
    /\ boot.heartbeatTimer /\ boot.taskCheckTimer /\ boot.looping
    /\ boot.steps = StartOrder

\* C22: once the runner has been stopped, by stop() or by a termination
\* signal, no operation that was in flight reports progress or sends a
\* request any more, and the encoder subprocess is not left running
C22_ShutdownCancels ==
    boot.pc \in {"stopped", "exited"} => (boot.late = {} /\ boot.encoder # "running")

\* C30: the system probe never raises - when a CPU, memory, disk or GPU
\* probe fails it still returns a result, with encoder cpu, and start never
\* fails because of the probe
C30_ProbeNeverRaises ==
    boot.pc # "new" =>
        /\ ~boot.probe.raised
        /\ boot.probe.degraded => boot.probe.encoder = "cpu"
        /\ boot.cause # "probe"

(***************************************************************************)
(* Downloads.                                                              *)
(***************************************************************************)
\* C23: chunked resume is exact - whatever attempts failed part-way, were
\* retried, or were resumed by a restart on the same destination, a download
\* that reports success has handed to the merge one part per chunk, each of
\* exactly end - start + 1 bytes, so that the bytes merged total
\* content-length (how many of them the merge has written when start()
\* returns is the merge step's own matter)
C23_ResumeExact ==
    dl.pc = "merged" =>
        /\ Len(dl.handed) = numChunksFor(dl.total, dl.numChunks)
        /\ \A i \in 0..(dl.numChunks - 1) :
              dl.handed[i + 1] = chunkEnd(dl.total, dl.numChunks, i)
                                   - chunkStart(dl.total, dl.numChunks, i) + 1
        /\ Sum(dl.handed) = dl.total

\* C24: a source of zero bytes makes the download stage fail - the task
\* ends FAILED with code DOWNLOAD_ERROR and does not go on to convert
C24_EmptySourceFails ==
    (dl.pc = "done" /\ dl.mode = "single" /\ dl.total = 0)
        => (dl.stage = "failed" /\ dl.code = "DOWNLOAD_ERROR")

(***************************************************************************)
(* Uploads.                                                                *)
(***************************************************************************)
\* C25: when upload() raises, whatever step failed, nothing this upload
\* wrote is left in the store: neither the final object nor a part sibling
C25_FailedUploadLeavesNothing ==
    up.pc = "raised" => (~up.final /\ up.parts = {})

\* the least n with n * PART_SIZE >= size
PartsNeeded(size) == CHOOSE n \in 0..(MaxParts + 2) : n * PART_SIZE >= size /\ (n = 0 \/ (n - 1) * PART_SIZE < size)

\* C26: the path is chosen by size with the boundary at exactly 10 MiB - a
\* file of at most 10 MiB gets one single write and no part object, a larger
\* one is uploaded in ceil(size / 5 MiB) parts, and a missing or empty file
\* is rejected before any write
C26_PathBySize ==
    /\ (up.pc # "none" /\ (~up.exists \/ up.size = 0))
          => (up.pc = "raised" /\ up.writes = 0 /\ up.parts = {} /\ ~up.final)
    /\ (up.pc # "none" /\ up.exists /\ up.size > 0 /\ up.size <= 10 * 1024 * 1024)
          => /\ up.partWrites = 0 /\ up.parts = {}
             /\ up.writes <= 1
             /\ up.pc \in {"verify", "presign", "done"} => up.writes = 1
    /\ (up.pc # "none" /\ up.exists /\ up.size >= 10 * 1024 * 1024 + 1)
          => /\ up.partWrites <= PartsNeeded(up.size)
             /\ up.final => up.partWrites = PartsNeeded(up.size)
             /\ up.pc = "done" => up.partWrites = PartsNeeded(up.size)

\* a file of 10 MiB + 1 byte has been uploaded in three parts
C26_Witness ==
    /\ up.pc = "done"
    /\ up.size = 10 * 1024 * 1024 + 1
    /\ up.partWrites = 3

(***************************************************************************)
(* The HTTP client.                                                        *)
(***************************************************************************)
\* the progress calls: POST /runner/<taskId>/download, /convert, /upload
ProgressCall == call.pc # "none" /\ call.url \in {"download", "convert", "upload"}

\* a failure after which trying again is in order: no response, or a
\* status of 500 and above
Retryable(error) == error.status = 0 \/ error.status >= 500

\* C27: a progress call is attempted exactly once, and when it fails the
\* failure is swallowed - no retry, no wait, and no error for the caller
C27_ProgressOnceSwallowed ==
    ProgressCall =>
        /\ call.attempts <= 1
        /\ call.retries = 0
        /\ call.slept = <<>>
        /\ call.outcome # "thrown"
        /\ call.pc \in {"none", "attempt", "done"}
        /\ call.pc = "done" => call.attempts = 1

\* a progress call has failed and the caller got no error
C27_Witness ==
    /\ ProgressCall
    /\ call.pc = "done"
    /\ call.errors # <<>>
    /\ call.outcome = "swallowed"

\* C28: a call sent through the retry loop that keeps failing with a
\* retryable error is retried 3 times after the first attempt, after waits
\* of 1 s, 2 s and 4 s, and only then is the error thrown to the caller; a
\* call that succeeds on some attempt returns the response
C28_ThreeRetriesBackoff ==
    (/\ call.pc = "done"
     /\ ~isProgressApi(call.url)
     /\ \A i \in 1..Len(call.errors) : Retryable(call.errors[i]))
        => IF Len(call.errors) < call.attempts
           THEN call.outcome = "returned"
           ELSE /\ call.outcome = "thrown"
                /\ call.attempts = 1 + 3
                /\ call.slept = <<1000, 2000, 4000>>

StateCalls == {"start", "complete", "fail", "downloadComplete", "convertComplete"}

\* C31: every state call (/start, /complete, /fail, /downloadComplete,
\* /convertComplete) is in the state class and not in the progress class, and
\* its failure is never swallowed after a single attempt: a retryable failure
\* sends it to the retry loop.
C31_StateCallsRetried ==
    (call.pc # "none" /\ call.url \in StateCalls) =>
        /\ ~isProgressApi(call.url)
        /\ call.outcome # "swallowed"
        /\ (call.errors # <<>> /\ Retryable(call.errors[1])) => call.retries >= 1
        /\ isStateApi(call.url)

\* C32: seeding the carry entry of a task id that already has one (the id is
\* bound again while the task is still in the pipeline) leaves the stored
\* downloadedFilePath and convertedFilePath as they were.
C32_SeedIdempotent ==
    [][\A id \in TaskIds :
          (/\ poll.pc = "start" /\ poll.id = id
           /\ fetched' = fetched + 1
           /\ taskStates[id].present)
             => /\ taskStates'[id].downloadedFilePath = taskStates[id].downloadedFilePath
                /\ taskStates'[id].convertedFilePath = taskStates[id].convertedFilePath]_vars

\* the number of bytes a chunk covers
Covers(chunk) == chunk.end - chunk.start + 1

\* clamp(x, lo, hi) as Math.min(Math.max(x, lo), hi) computes it
Clamped(x, lo, hi) == IF x < lo THEN (IF lo < hi THEN lo ELSE hi) ELSE IF x > hi THEN hi ELSE x

C40_PlanIsPartition ==
    (dl.pc = "planned" /\ dl.total >= 1) =>
        /\ \A i \in 1..Len(dl.chunks) :
              /\ 0 <= dl.chunks[i].start
              /\ dl.chunks[i].start <= dl.chunks[i].end
              /\ dl.chunks[i].end <= dl.total - 1
        /\ dl.chunks[1].start = 0
        /\ \A i \in 2..Len(dl.chunks) : dl.chunks[i].start = dl.chunks[i - 1].end + 1
        /\ dl.chunks[Len(dl.chunks)].end = dl.total - 1

\* C34: the merge appends the parts strictly in index order, removes a part
\* only after all of its bytes have been appended to destPath, and start()
\* returns only after destPath holds all the parts.
C34_MergeInOrderThenUnlink ==
    dl.pc = "merged" =>
        /\ dl.inOrder
        /\ dl.early = {}
        /\ dl.merged = Sum(dl.handed)

\* the ceiling maxFileSize * 8 of the transcoder that ran, in kbit
MaxKbitOf(impl) == IF impl = "Converter" THEN 30400000 ELSE 32641751

\* C35: for every positive duration the solved video bitrate is
\* min(maxVideoBitrate, floor(maxFileSize * 8 / duration) - audioBitrate)
\* raised to at least 100 kbps, so it lies within 100 kbps..maxVideoBitrate;
\* with a missing or zero duration the transcode fails.
C35_BitrateSolved ==
    enc.pc # "none" =>
        IF ~enc.probe.err /\ enc.probe.has /\ enc.probe.duration > 0
        THEN /\ enc.pc = "solved"
             /\ LET budget == (MaxKbitOf(enc.impl) \div enc.probe.duration) - 192
                     capped == IF budget < 1500 THEN budget ELSE 1500
                 IN  enc.kbps = IF capped < 100 THEN 100 ELSE capped
             /\ enc.kbps >= 100
             /\ enc.kbps <= 1500
        ELSE enc.pc = "failed"

\* C36: within one run of the chunked download the progress values passed to
\* the callback never decrease, stay within 0..100 (here in hundredths of a
\* percent), and the last one before start() returns is 100, also when a
\* chunk attempt failed part-way and was retried.
C36_ProgressMonotone ==
    [][(dl'.pc \in {"chunks", "failed", "merged"} /\ dl'.emitted)
          => /\ dl'.progress >= 0 /\ dl'.progress <= 100 * 100
             /\ (dl.pc = "chunks" /\ dl.emitted /\ dl'.restarts = dl.restarts)
                   => dl'.progress >= dl.progress
             /\ dl'.pc = "merged" => dl'.progress = 100 * 100]_vars

\* C37: every call of TaskProcessor.process(task) that has ended has emitted
\* exactly one terminal event, 'complete' or 'error', and has not raised to
\* its caller, also when a listener of 'complete' throws (stated here for
\* the calls in which no listener of another event threw).
C37_OneTerminalEvent ==
    (run.pc \in {"returned", "raised"} /\ run.threw \subseteq {"complete"}) =>
        /\ run.pc = "returned"
        /\ Len(run.events) = 1

\* C38: with a fair dispatch loop and operations that end, every task added
\* to the queue eventually is terminal: the queue has emitted 'completed' or
\* 'failed' for it and it is in no waiting list and no in-flight set.
C38_EveryTaskEnds ==
    \A id \in OfferedIds :
        (Occurrences(taskQueue, id) > 0)
            ~> (Occurrences(taskQueue, id) = 0 /\ id \in terminal)

\* two tasks were added; one went through the three stages and the other
\* failed, and both have left the queue
C38_Witness ==
    \E a, b \in OfferedIds :
        /\ a # b
        /\ {a, b} \subseteq terminal
        /\ Occurrences(taskQueue, a) = 0 /\ Occurrences(taskQueue, b) = 0
        /\ tasks[a].status = "FINISHED"
        /\ tasks[b].status = "FAILED"

\* C39: once stop() has returned the runner binds no further task: no
\* POST /runner/<id>/start is sent and no task is added to the queue, also
\* when a poll was awaiting its getTask or start answer when stop() was
\* called, and the dispatch loop starts no task after the running iteration.
C39_StopBindsNothing ==
    boot.pc \in {"stopped", "exited"} =>
        /\ ~boot.lateStart
        /\ ~boot.lateAdd
        /\ ~boot.lateDispatch

====
